---- MODULE Spec2Model ----
(***************************************************************************)
(* Verification model of the worklog-ui client: the route guard            *)
(* (middleware), the API client's response interceptor, the error-message  *)
(* extraction, the role-visibility predicates and the page components'     *)
(* fetch cycles.                                                           *)
(*                                                                         *)
(* The module holds several specifications over one set of variables.      *)
(* Each specification drives one part of the program and leaves the        *)
(* variables of the other parts at their idle value.                       *)
(***************************************************************************)
EXTENDS Integers, Sequences, FiniteSets, Bags, TLC

VARIABLES guard, icpt, ext, perm

\* the browser session: the cookie, the guard version deployed, the logged-in
\* user the backend knows; the layout's navbar; the page shown and its
\* component state; the requests in flight; what the last step did
VARIABLES session, navbar, page, view, inflight, last

client == <<session, navbar, page, view, inflight, last>>

\* a call of one of the calculation functions, and the worklog form
VARIABLES calc, form

pure == <<calc, form>>

vars == <<guard, icpt, ext, perm, session, navbar, page, view, inflight, last,
          calc, form>>

(***************************************************************************)
(* Bounds                                                                  *)
(***************************************************************************)
\* longest request path, in tokens
MaxPathLen == 6
\* longest URL of an API call, in tokens
MaxUrlLen == 4
\* user and employee ids are 1..MaxId, department ids 1..MaxDept
MaxId == 3
MaxDept == 2
\* most requests in flight at once in the client
MaxInflight == 2

\* JavaScript's undefined / null / absent property
Undefined == "undefined"
Null == "null"

(***************************************************************************)
(* Strings.  A path is a sequence of tokens; every token stands for the    *)
(* substring it is named after.  No token is a prefix of another one, so   *)
(* String.prototype.startsWith is the prefix relation on sequences.        *)
(***************************************************************************)
PathTokens == {"/", "login", "api", "auth", "x"}

startsWith(s, p) == Len(p) <= Len(s) /\ SubSeq(s, 1, Len(p)) = p

\* all paths of at most MaxPathLen tokens; a URL pathname starts with "/"
Pathnames ==
  { s \in UNION { [1..n -> PathTokens] : n \in 1..MaxPathLen } : s[1] = "/" }

\* URLSearchParams serialises "/" as %2F and leaves letters alone
encodeToken(t) == IF t = "/" THEN "%2F" ELSE t
decodeToken(t) == IF t = "%2F" THEN "/" ELSE t
encodeURIComponent(s) == [i \in 1..Len(s) |-> encodeToken(s[i])]
decodeURIComponent(s) == [i \in 1..Len(s) |-> decodeToken(s[i])]

\* new URL(path, request.url): the path on the request's origin, no query
URL(path) == [pathname |-> path, search |-> << >>]

\* url.searchParams.set(key, value) on a URL that has no such key
searchParamsSet(url, key, value) ==
  [url EXCEPT !.search = Append(@, [key |-> key, value |-> encodeURIComponent(value)])]

\* url.searchParams.get(key): the decoded value of the first such key, or null
searchParamsGet(url, key) ==
  IF \E i \in 1..Len(url.search) : url.search[i].key = key
  THEN LET i == CHOOSE j \in 1..Len(url.search) :
                  /\ url.search[j].key = key
                  /\ \A k \in 1..(j-1) : url.search[k].key # key
       IN decodeURIComponent(url.search[i].value)
  ELSE Null

(***************************************************************************)
(* Route guard: middleware(request)                                        *)
(***************************************************************************)
LoginPath == <<"/", "login">>
ApiPrefix == <<"/", "api">>
RootPath == <<"/">>
DashboardPath == <<"/", "dashboard">>

publicPaths == { LoginPath, <<"/", "api", "/", "auth", "/", "login">> }

\* values the JSESSIONID cookie may carry; "" is an empty but present cookie
CookieValues == {"", "valid", "expired"}

\* request.cookies.get('JSESSIONID'): undefined (the empty set here), or the
\* cookie object (a singleton)
cookiesGet(cookie) ==
  IF cookie = Undefined THEN {}
  ELSE {[name |-> "JSESSIONID", value |-> cookie]}

\* a guard that tests the cookie's value instead of its presence
truthyCookieByValue(c) == c # {} /\ \A o \in c : o.value # ""

\* JavaScript truthiness of what cookies.get returned: any object is truthy
truthyCookie(c) == c # {}

isPublicPath(pathname) == \E p \in publicPaths : startsWith(pathname, p)

NextResponseNext == [kind |-> "next"]
NextResponseRedirect(url) == [kind |-> "redirect", url |-> url]

\* a guard that handles the root path before the missing session
middlewareRootFirst(pathname, cookie) ==
  LET sessionCookie == cookiesGet(cookie) IN
  IF startsWith(pathname, ApiPrefix) THEN NextResponseNext
  ELSE IF pathname = RootPath
       THEN IF truthyCookie(sessionCookie)
            THEN NextResponseRedirect(URL(DashboardPath))
            ELSE NextResponseRedirect(URL(LoginPath))
  ELSE IF ~truthyCookie(sessionCookie) /\ ~isPublicPath(pathname)
       THEN NextResponseRedirect(searchParamsSet(URL(LoginPath), "from", pathname))
  ELSE NextResponseNext

\* middleware of the version that lets /api through
middleware(pathname, cookie) ==
  LET sessionCookie == cookiesGet(cookie) IN
  IF startsWith(pathname, ApiPrefix) THEN NextResponseNext
  ELSE IF ~truthyCookie(sessionCookie) /\ ~isPublicPath(pathname)
       THEN NextResponseRedirect(searchParamsSet(URL(LoginPath), "from", pathname))
  ELSE IF pathname = RootPath
       THEN IF truthyCookie(sessionCookie)
            THEN NextResponseRedirect(URL(DashboardPath))
            ELSE NextResponseRedirect(URL(LoginPath))
  ELSE NextResponseNext

\* middleware of the version that bounces a session away from /login
middlewareLoginBounce(pathname, cookie) ==
  LET sessionCookie == cookiesGet(cookie) IN
  IF ~truthyCookie(sessionCookie) /\ ~isPublicPath(pathname)
  THEN NextResponseRedirect(searchParamsSet(URL(LoginPath), "from", pathname))
  ELSE IF truthyCookie(sessionCookie) /\ pathname = LoginPath
       THEN NextResponseRedirect(URL(DashboardPath))
  ELSE IF pathname = RootPath
       THEN IF truthyCookie(sessionCookie)
            THEN NextResponseRedirect(URL(DashboardPath))
            ELSE NextResponseRedirect(URL(LoginPath))
  ELSE NextResponseNext

GuardVersions == {"apiBypass", "loginBounce"}

runMiddleware(version, pathname, cookie) ==
  IF version = "apiBypass" THEN middleware(pathname, cookie)
  ELSE middlewareLoginBounce(pathname, cookie)

IdleGuard == [phase |-> "idle"]
IdleIcpt == [phase |-> "idle"]
IdleExt == [phase |-> "idle"]
IdlePerm == [phase |-> "idle"]

\* the client is not running
IdlePure ==
  /\ calc = [phase |-> "idle"]
  /\ form = [phase |-> "idle"]

IdleClient ==
  /\ session = [phase |-> "idle"]
  /\ navbar = [phase |-> "idle"]
  /\ page = [name |-> "idle"]
  /\ view = [phase |-> "idle"]
  /\ inflight = EmptyBag
  /\ last = [event |-> "idle"]

\* a request reaches the guard
InitGuard ==
  /\ guard \in [phase : {"request"}, version : GuardVersions,
                pathname : Pathnames, cookie : CookieValues \cup {Undefined}]
  /\ icpt = IdleIcpt
  /\ ext = IdleExt
  /\ perm = IdlePerm
  /\ IdleClient
  /\ IdlePure

\* the guard answers it
Middleware ==
  /\ guard.phase = "request"
  /\ guard' = [phase |-> "answered", version |-> guard.version,
               pathname |-> guard.pathname, cookie |-> guard.cookie,
               response |-> runMiddleware(guard.version, guard.pathname, guard.cookie)]
  /\ UNCHANGED <<icpt, ext, perm, client, pure>>

NextGuard == Middleware

SpecGuard == InitGuard /\ [][NextGuard]_vars

GuardAnswered == guard.phase = "answered"

searchParamsHas(url, key) == \E i \in 1..Len(url.search) : url.search[i].key = key

\* C1: a request without session cookie whose path is neither public nor
\* under /api is answered by a redirect to /login whose 'from' parameter is
\* the requested pathname; it is never let through.
C1_UnauthenticatedRedirectsToLoginWithFrom ==
  ( /\ GuardAnswered
    /\ guard.cookie = Undefined
    /\ ~isPublicPath(guard.pathname)
    /\ ~startsWith(guard.pathname, ApiPrefix) )
  => /\ guard.response.kind = "redirect"
     /\ guard.response.url.pathname = LoginPath
     /\ searchParamsHas(guard.response.url, "from")
     /\ searchParamsGet(guard.response.url, "from") = guard.pathname

\* a protected two-segment path and the root path, both without cookie, were
\* redirected
C1_Witness ==
  /\ GuardAnswered
  /\ guard.cookie = Undefined
  /\ guard.pathname = <<"/", "x", "/", "x">>
  /\ guard.response.kind = "redirect"
  /\ guard.response.url.search = <<[key |-> "from", value |-> <<"%2F", "x", "%2F", "x">>]>>

\* C2: every request whose path starts with /api is passed through, never
\* redirected, with or without session cookie, public or not.
C2_ApiPathsBypassGuard ==
  (GuardAnswered /\ startsWith(guard.pathname, ApiPrefix))
  => guard.response.kind = "next"

\* C3: the root path with a session cookie is redirected to /dashboard,
\* whatever the cookie's value.
C3_RootWithCookieRedirectsToDashboard ==
  (GuardAnswered /\ guard.pathname = RootPath /\ guard.cookie # Undefined)
  => guard.response = NextResponseRedirect(URL(DashboardPath))

\* the root path was requested with an empty-valued cookie and answered
C3_Witness ==
  /\ GuardAnswered
  /\ guard.pathname = RootPath
  /\ guard.cookie = ""
  /\ guard.response.kind = "redirect"

(***************************************************************************)
(* JavaScript values, as far as the error handling inspects them           *)
(***************************************************************************)
JsUndefined == [t |-> "undefined"]
JsNull == [t |-> "null"]
Str(s) == [t |-> "string", v |-> s]
Num(n) == [t |-> "number", v |-> n]
JsArray == [t |-> "array"]
\* an object: its own properties, and whether it is an instance of Error
Obj(isError, props) == [t |-> "object", isError |-> isError, props |-> props]

typeof(x) == IF x.t \in {"null", "array"} THEN "object" ELSE x.t

truthy(x) ==
  CASE x.t \in {"undefined", "null"} -> FALSE
    [] x.t = "string" -> x.v # ""
    [] x.t = "number" -> x.v # 0
    [] OTHER -> TRUE

\* key in x, for an object x
hasKey(x, key) == x.t = "object" /\ key \in DOMAIN x.props

\* x?.key
get(x, key) == IF hasKey(x, key) THEN x.props[key] ELSE JsUndefined

instanceofError(x) == x.t = "object" /\ x.isError

(***************************************************************************)
(* lib/error-handler.ts: extractErrorMessage                               *)
(***************************************************************************)
statusMessage(status) ==
  CASE status = 400 -> "Invalid request. Please check your input."
    [] status = 401 -> "You need to log in to perform this action."
    [] status = 403 -> "You do not have permission to perform this action."
    [] status = 404 -> "The requested resource was not found."
    [] status = 409 -> "A conflict occurred. The resource may already exist."
    [] status = 500 -> "Server error. Please try again later."
    [] OTHER -> "An error occurred (" \o ToString(status) \o ")"

\* an extraction that consults the status code before the response body
extractErrorMessageStatusFirst(error) ==
  LET response == get(error, "response")
      data == get(response, "data")
      status == get(response, "status")
      isAxios == truthy(error) /\ typeof(error) = "object" /\ hasKey(error, "response")
  IN
  IF isAxios /\ truthy(status)
  THEN Str(statusMessage(status.v))
  ELSE IF isAxios /\ truthy(data) /\ typeof(data) = "object" /\ hasKey(data, "message")
  THEN get(data, "message")
  ELSE IF isAxios /\ truthy(data) /\ typeof(data) = "string"
  THEN data
  ELSE IF instanceofError(error)
  THEN get(error, "message")
  ELSE Str("An unexpected error occurred")

extractErrorMessage(error) ==
  LET response == get(error, "response")
      data == get(response, "data")
      status == get(response, "status")
      isAxios == truthy(error) /\ typeof(error) = "object" /\ hasKey(error, "response")
  IN
  IF isAxios /\ truthy(data) /\ typeof(data) = "object" /\ hasKey(data, "message")
  THEN get(data, "message")
  ELSE IF isAxios /\ truthy(data) /\ typeof(data) = "string"
  THEN data
  ELSE IF isAxios /\ truthy(status)
  THEN Str(statusMessage(status.v))
  ELSE IF instanceofError(error)
  THEN get(error, "message")
  ELSE Str("An unexpected error occurred")

\* response bodies: absent, null, empty and non-empty text, the backend's
\* error object (with a text, an empty or a null message), an object without
\* message, an array
Bodies ==
  { JsUndefined, JsNull, Str(""), Str("body text"), JsArray,
    Obj(FALSE, [message |-> Str("backend message")]),
    Obj(FALSE, [message |-> Str("")]),
    Obj(FALSE, [message |-> JsNull]),
    Obj(FALSE, [error |-> Str("Validation Error")]) }

Statuses == { JsUndefined, Num(0), Num(400), Num(401), Num(403), Num(404),
              Num(409), Num(418), Num(500), Num(503) }

Responses ==
  { JsUndefined, JsNull } \cup
  { Obj(FALSE, [status |-> st, data |-> d]) : st \in Statuses, d \in Bodies }

ErrorMessages == { "Network Error", "" }

\* what a catch block may hand to extractErrorMessage: primitives, plain
\* objects and Error instances, with or without a 'response' property
ThrownValues ==
  { JsUndefined, JsNull, Str("thrown text"), Num(7) } \cup
  { Obj(e, [message |-> Str(m)]) : e \in BOOLEAN, m \in ErrorMessages } \cup
  { Obj(e, [message |-> Str(m), response |-> r]) :
      e \in BOOLEAN, m \in ErrorMessages, r \in Responses }

InitExtract ==
  /\ ext \in [phase : {"caught"}, error : ThrownValues]
  /\ guard = IdleGuard
  /\ icpt = IdleIcpt
  /\ perm = IdlePerm
  /\ IdleClient
  /\ IdlePure

\* a catch block extracts the message of what it caught
ExtractErrorMessage ==
  /\ ext.phase = "caught"
  /\ ext' = [phase |-> "extracted", error |-> ext.error,
             message |-> extractErrorMessage(ext.error)]
  /\ UNCHANGED <<guard, icpt, perm, client, pure>>

NextExtract == ExtractErrorMessage

SpecExtract == InitExtract /\ [][NextExtract]_vars

Extracted == ext.phase = "extracted"

\* the parts of the caught value the claim speaks of
ExtBody == get(get(ext.error, "response"), "data")
ExtStatus == get(get(ext.error, "response"), "status")
ExtBodyHasMessage == ExtBody.t = "object" /\ "message" \in DOMAIN ExtBody.props
ExtStatusUsable == ExtStatus.t = "number" /\ ExtStatus.v # 0

\* the generic message the claim keys by status code
ExtGeneric ==
  CASE ExtStatus.v = 400 -> "Invalid request. Please check your input."
    [] ExtStatus.v = 401 -> "You need to log in to perform this action."
    [] ExtStatus.v = 403 -> "You do not have permission to perform this action."
    [] ExtStatus.v = 404 -> "The requested resource was not found."
    [] ExtStatus.v = 409 -> "A conflict occurred. The resource may already exist."
    [] ExtStatus.v = 500 -> "Server error. Please try again later."
    [] ExtStatus.v = 418 -> "An error occurred (418)"
    [] ExtStatus.v = 503 -> "An error occurred (503)"

\* what follows the response body in the precedence: status, Error, fallback
ExtAfterBody ==
  IF ExtStatusUsable THEN ext.message = Str(ExtGeneric)
  ELSE IF instanceofError(ext.error) THEN ext.message = ext.error.props.message
  ELSE ext.message = Str("An unexpected error occurred")

\* C6 as claimed: the body's message field, else the body when it is a plain
\* string, else the generic message of the status, else Error.message, else
\* the fallback text; and the result is a message for every input.
C6_ExtractPrecedenceAsClaimed ==
  Extracted =>
    /\ IF ExtBodyHasMessage THEN ext.message = ExtBody.props.message
       ELSE IF ExtBody.t = "string" THEN ext.message = ExtBody
       ELSE ExtAfterBody
    /\ ext.message.t = "string"

\* C6 (amended): the same precedence, where only a non-empty string body is
\* returned as it is (an empty one falls through to the status), and the
\* result is a string unless the body's message field itself is not one.
C6_ExtractPrecedence ==
  Extracted =>
    /\ IF ExtBodyHasMessage THEN ext.message = ExtBody.props.message
       ELSE IF ExtBody.t = "string" /\ ExtBody.v # "" THEN ext.message = ExtBody
       ELSE ExtAfterBody
    /\ \/ ext.message.t = "string"
       \/ ExtBodyHasMessage /\ ExtBody.props.message.t # "string"

\* an empty string body with status 404 was extracted to the 404 text
C6_Witness ==
  /\ Extracted
  /\ ExtBody = Str("")
  /\ ExtStatus = Num(404)
  /\ ext.message = Str("The requested resource was not found.")

(***************************************************************************)
(* API client: the response interceptor of the axios instance              *)
(***************************************************************************)
UrlTokens == {"/", "auth", "login", "x"}

\* request URLs of at most MaxUrlLen tokens
Urls == UNION { [1..n -> UrlTokens] : n \in 1..MaxUrlLen }

\* String.prototype.includes: pattern occurs in s as a contiguous run
includes(s, pattern) ==
  \E i \in 1..(Len(s) - Len(pattern) + 1) :
    SubSeq(s, i, i + Len(pattern) - 1) = pattern

AuthLoginUrl == <<"/", "auth", "/", "login">>

\* error.config, with its url when it has one (a set of at most one URL)
Configs ==
  { [hasConfig |-> FALSE, url |-> {}], [hasConfig |-> TRUE, url |-> {}] } \cup
  { [hasConfig |-> TRUE, url |-> {u}] : u \in Urls }

IcptBodies ==
  { JsUndefined, Str("body text"), Obj(FALSE, [message |-> Str("backend message")]) }

\* error.response: absent for a transport failure
IcptResponses ==
  { JsUndefined } \cup
  { Obj(FALSE, [status |-> st, data |-> d]) : st \in Statuses, d \in IcptBodies }

\* window.location.pathname
Locations == { LoginPath, DashboardPath, <<"/", "login", "/", "x">> }

\* the AxiosError as extractErrorMessage sees it
axiosErrorValue(response) ==
  IF response = JsUndefined THEN Obj(TRUE, [message |-> Str("Network Error")])
  ELSE Obj(TRUE, [message |-> Str("Request failed"), response |-> response])

\* an interceptor that resolves with the error instead of rejecting it
interceptorSwallow(config, response, pathname) ==
  LET isLoginRequest == \E u \in config.url : includes(u, AuthLoginUrl)
      isOnLoginPage == pathname = LoginPath
      status == get(response, "status")
  IN [ href |-> IF status = Num(401) /\ ~isOnLoginPage /\ ~isLoginRequest
                THEN {LoginPath} ELSE {},
       console |-> << >>,
       toasts |-> IF status # Num(401) /\ status # Num(403)
                     /\ truthy(status) /\ status.v >= 500
                  THEN <<"Server error. Please try again later.">> ELSE << >>,
       rejected |-> {},
       resolved |-> {[config |-> config, response |-> response]} ]

\* an interceptor that redirects on 401 wherever it is
interceptorAlwaysRedirect(config, response, pathname) ==
  LET status == get(response, "status")
  IN [ href |-> IF status = Num(401) THEN {LoginPath} ELSE {},
       console |-> IF status = Num(403)
                   THEN <<extractErrorMessage(axiosErrorValue(response))>> ELSE << >>,
       toasts |-> IF status # Num(401) /\ status # Num(403)
                     /\ truthy(status) /\ status.v >= 500
                  THEN <<"Server error. Please try again later.">> ELSE << >>,
       rejected |-> {[config |-> config, response |-> response]},
       resolved |-> {} ]

\* the error handler given to api.interceptors.response.use: what it assigns to
\* window.location.href, logs, toasts, and the promise it returns
interceptor(config, response, pathname) ==
  LET isLoginRequest == \E u \in config.url : includes(u, AuthLoginUrl)
      isOnLoginPage == pathname = LoginPath
      status == get(response, "status")
  IN [ href |-> IF status = Num(401) /\ ~isOnLoginPage /\ ~isLoginRequest
                THEN {LoginPath} ELSE {},
       console |-> IF status # Num(401) /\ status = Num(403)
                   THEN <<extractErrorMessage(axiosErrorValue(response))>> ELSE << >>,
       toasts |-> IF status # Num(401) /\ status # Num(403)
                     /\ truthy(status) /\ status.v >= 500
                  THEN <<"Server error. Please try again later.">> ELSE << >>,
       rejected |-> {[config |-> config, response |-> response]},
       resolved |-> {} ]

\* a request of the API client has failed
InitIntercept ==
  /\ icpt \in [phase : {"failed"}, config : Configs, response : IcptResponses,
               pathname : Locations]
  /\ guard = IdleGuard
  /\ ext = IdleExt
  /\ perm = IdlePerm
  /\ IdleClient
  /\ IdlePure

\* the interceptor handles it
Interceptor ==
  /\ icpt.phase = "failed"
  /\ icpt' = [phase |-> "handled", config |-> icpt.config,
              response |-> icpt.response, pathname |-> icpt.pathname,
              out |-> interceptor(icpt.config, icpt.response, icpt.pathname)]
  /\ UNCHANGED <<guard, ext, perm, client, pure>>

NextIntercept == Interceptor

SpecIntercept == InitIntercept /\ [][NextIntercept]_vars

Handled == icpt.phase = "handled"

IcptStatus == get(icpt.response, "status")

\* the failed request was the login call
IcptIsLoginCall == \E u \in icpt.config.url : includes(u, AuthLoginUrl)

\* C4: a 401 response forces navigation to /login if and only if the browser
\* is not on /login and the failed request was not the login call.
C4_Redirect401ExceptLogin ==
  (Handled /\ IcptStatus = Num(401))
  => ( icpt.out.href = {LoginPath}
       <=> (icpt.pathname # LoginPath /\ ~IcptIsLoginCall) )
     /\ icpt.out.href \in {{}, {LoginPath}}

\* a 401 of the login call, met away from /login, was handled without
\* navigation
C4_Witness ==
  /\ Handled
  /\ IcptStatus = Num(401)
  /\ icpt.config.url = {AuthLoginUrl}
  /\ icpt.pathname = DashboardPath
  /\ icpt.out.href = {}

\* C5: 403 gives no toast and no redirect; a status of 500 or more gives one
\* generic server-error toast and no redirect; every failure is rejected to
\* the caller with the original error.
C5_ErrorDispatch ==
  Handled =>
    /\ IcptStatus = Num(403) => (icpt.out.toasts = << >> /\ icpt.out.href = {})
    /\ (IcptStatus.t = "number" /\ IcptStatus.v >= 500)
         => /\ icpt.out.toasts = <<"Server error. Please try again later.">>
            /\ icpt.out.href = {}
    /\ icpt.out.rejected = {[config |-> icpt.config, response |-> icpt.response]}
    /\ icpt.out.resolved = {}

\* a 503 was handled with one toast and rejected
C5_Witness ==
  /\ Handled
  /\ IcptStatus = Num(503)
  /\ Len(icpt.out.toasts) = 1
  /\ icpt.out.rejected # {}

(***************************************************************************)
(* Role-visibility rules                                                   *)
(***************************************************************************)
Roles == {"EMPLOYEE", "TEAM_LEAD", "DIRECTOR"}

Ids == 1..MaxId
Depts == 1..MaxDept

\* User, as far as the rules read it
Users == [id : Ids, role : Roles, departmentId : Depts]

\* Employee; teamLeadId is null (the empty set) or one id
Employees == [id : Ids, teamLeadId : {{}} \cup {{i} : i \in Ids}, departmentId : Depts]

\* hasRole(user, roles), user being null (the empty set) or {user}
hasRole(user, roles) ==
  IF user = {} THEN FALSE
  ELSE \E u \in user : u.role \in roles

\* a team predicate that forgets the directors
canViewTeamDataLeadsOnly(user) == hasRole(user, {"TEAM_LEAD"})

canViewTeamData(user) == hasRole(user, {"TEAM_LEAD", "DIRECTOR"})

canViewDepartmentData(user) == hasRole(user, {"DIRECTOR"})

\* a check that grants a director every employee
canViewEmployeeDataAnyDept(user, emp) ==
  \/ user.id = emp.id
  \/ canViewDepartmentData({user})
  \/ canViewTeamData({user}) /\ emp.teamLeadId = {user.id}

\* a check that only looks at the teamLeadId back-reference
canViewEmployeeDataNoRole(user, emp) ==
  \/ user.id = emp.id
  \/ canViewDepartmentData({user}) /\ user.departmentId = emp.departmentId
  \/ emp.teamLeadId = {user.id}

\* canViewEmployeeData of the employee detail page
canViewEmployeeData(user, emp) ==
  IF user.id = emp.id THEN TRUE
  ELSE IF canViewDepartmentData({user}) /\ user.departmentId = emp.departmentId
       THEN TRUE
  ELSE IF canViewTeamData({user}) /\ emp.teamLeadId = {user.id}
       THEN TRUE
  ELSE FALSE

\* a viewer (null while not loaded) and a target employee
InitPerm ==
  /\ perm \in [phase : {"loaded"}, viewer : {{}} \cup {{u} : u \in Users},
               target : Employees, roleChecks : {{}}, employeeCheck : {{}}]
  /\ guard = IdleGuard
  /\ icpt = IdleIcpt
  /\ ext = IdleExt
  /\ IdleClient
  /\ IdlePure

\* a component evaluates the two role predicates on the viewer
CheckRole ==
  /\ perm.roleChecks = {}
  /\ perm' = [perm EXCEPT !.roleChecks =
                {[team |-> canViewTeamData(perm.viewer),
                  department |-> canViewDepartmentData(perm.viewer)]}]
  /\ UNCHANGED <<guard, icpt, ext, client, pure>>

\* the employee detail page checks the loaded viewer against the employee
CheckEmployee ==
  /\ perm.employeeCheck = {}
  /\ \E u \in perm.viewer :
       perm' = [perm EXCEPT !.employeeCheck = {canViewEmployeeData(u, perm.target)}]
  /\ UNCHANGED <<guard, icpt, ext, client, pure>>

NextPerm == CheckRole \/ CheckEmployee

SpecPerm == InitPerm /\ [][NextPerm]_vars

\* C8: canViewEmployee is true exactly for self, for a director of the same
\* department, and for a team lead or director who is the target's team lead;
\* in particular for viewer == target under every role.
C8_CanViewEmployeeExact ==
  \A u \in perm.viewer : \A r \in perm.employeeCheck :
    /\ r <=> \/ u.id = perm.target.id
             \/ u.role = "DIRECTOR" /\ u.departmentId = perm.target.departmentId
             \/ /\ u.role \in {"TEAM_LEAD", "DIRECTOR"}
                /\ perm.target.teamLeadId # {}
                /\ perm.target.teamLeadId = {u.id}
    /\ u.id = perm.target.id => r

\* an employee was refused a colleague who names them as team lead
C8_Witness ==
  \E u \in perm.viewer :
    /\ u.role = "EMPLOYEE"
    /\ u.id # perm.target.id
    /\ perm.target.teamLeadId = {u.id}
    /\ perm.employeeCheck = {FALSE}

\* C9 as claimed: for a director and another employee, the check is false
\* whenever the departments differ and true whenever they are the same.
C9_DirectorByDepartmentAsClaimed ==
  \A u \in perm.viewer : \A r \in perm.employeeCheck :
    (u.role = "DIRECTOR" /\ u.id # perm.target.id)
    => (r <=> u.departmentId = perm.target.departmentId)

\* C9 (amended): for a director and another employee, the check is true
\* whenever the departments are the same, and false whenever they differ and
\* the employee's teamLeadId is not the director's id.
C9_DirectorByDepartment ==
  \A u \in perm.viewer : \A r \in perm.employeeCheck :
    (u.role = "DIRECTOR" /\ u.id # perm.target.id)
    => /\ u.departmentId = perm.target.departmentId => r
       /\ (u.departmentId # perm.target.departmentId /\ perm.target.teamLeadId # {u.id})
            => ~r

\* a director was refused an employee of another department
C9_Witness ==
  \E u \in perm.viewer :
    /\ u.role = "DIRECTOR"
    /\ u.id # perm.target.id
    /\ u.departmentId # perm.target.departmentId
    /\ perm.employeeCheck = {FALSE}

\* C10: canViewTeamData holds exactly for TEAM_LEAD and DIRECTOR,
\* canViewDepartmentData exactly for DIRECTOR, both are false for a null
\* user, and the second implies the first.
C10_RolePredicates ==
  \A c \in perm.roleChecks :
    /\ c.team <=> \E u \in perm.viewer : u.role = "TEAM_LEAD" \/ u.role = "DIRECTOR"
    /\ c.department <=> \E u \in perm.viewer : u.role = "DIRECTOR"
    /\ perm.viewer = {} => (~c.team /\ ~c.department)
    /\ c.department => c.team

\* the predicates were evaluated on a director
C10_Witness ==
  /\ \E u \in perm.viewer : u.role = "DIRECTOR"
  /\ perm.roleChecks = {[team |-> TRUE, department |-> TRUE]}

(***************************************************************************)
(* Calendar.  A date string "yyyy-MM-dd" is modelled by the number of its  *)
(* day counted from 2024-01-01, a Monday, which is day 1; a Date is a day  *)
(* and the milliseconds since local midnight, or Invalid Date.             *)
(***************************************************************************)
\* the calendar days the calculations are tried on: 2024-01-01 onwards
MaxDay == 40
CalendarDays == 1 .. MaxDay

\* a string that no calendar date is written as: the value of a cleared
\* date input
EmptyString == 0

DateStrings == CalendarDays \cup {EmptyString}

\* 12:00:00.000 and 23:59:59.999
MiddayMs == 43200000
EndOfDayMs == 86399999

Date(day, ms) == [valid |-> TRUE, day |-> day, ms |-> ms]
InvalidDate == [valid |-> FALSE, day |-> 0, ms |-> 0]

\* parseISO of a date-only string: local midnight of that day
parseISO(str) ==
  IF str >= 1 THEN Date(str, 0) ELSE InvalidDate

\* format(date, "yyyy-MM-dd") of a valid date
format(date) == date.day

\* isEqual: the two time values are the same number; NaN equals nothing
isEqual(a, b) == a.valid /\ b.valid /\ a.day = b.day /\ a.ms = b.ms

\* new Date(): 2024-01-17, a Wednesday
Today == 17
NewDate == Date(Today, MiddayMs)

\* first days of January .. May 2024
MonthStartDays == {1, 32, 61, 92, 122}

\* a week that starts one day late: Tuesday .. Monday
startOfWeekOffByOne(date) == Date(date.day - ((date.day - 2) % 7), 0)

\* startOfWeek / endOfWeek with weekStartsOn: 1
startOfWeek(date) == Date(date.day - ((date.day - 1) % 7), 0)
endOfWeek(date) == Date(startOfWeek(date).day + 6, EndOfDayMs)

startOfMonth(date) ==
  Date(CHOOSE s \in MonthStartDays :
         s <= date.day /\ \A t \in MonthStartDays : t <= date.day => t <= s, 0)
endOfMonth(date) ==
  Date((CHOOSE s \in MonthStartDays :
          s > date.day /\ \A t \in MonthStartDays : t > date.day => s <= t) - 1,
       EndOfDayMs)

getDateRangeForPeriod(period, baseDate) ==
  IF period = "week"
  THEN [startDate |-> format(startOfWeek(baseDate)),
        endDate |-> format(endOfWeek(baseDate))]
  ELSE [startDate |-> format(startOfMonth(baseDate)),
        endDate |-> format(endOfMonth(baseDate))]

\* dates a user types into the start and the end date input
StartInputs == {}
EndInputs == {}

(***************************************************************************)
(* The client: pages, navigation through the guard, requests               *)
(***************************************************************************)
\* pages under the dashboard layout (with the navbar)
GroupPages == {"dashboard", "team", "employee", "worklogs", "form"}

\* the logged-in user as /auth/me returns it
ViewRoles == {"TEAM_LEAD"}
ViewUsers == {[id |-> 1, role |-> r, departmentId |-> 1] : r \in ViewRoles}

\* employees the backend may return for /employees/{id}
ViewEmployeeIds == {2}
\* (a colleague of the user's department, on the user's team or on none)
ViewEmployees ==
  {e \in Employees :
     /\ e.id \in ViewEmployeeIds
     /\ e.teamLeadId \in {{}, {1}}
     /\ e.departmentId = 1}

\* a place to navigate to: the route, the employee id of /employees/{id}, the
\* period query of a team-page link, the 'from' parameter of /login
Target(name, id) == [name |-> name, id |-> id, q |-> {}, from |-> {}]

BlankPage == Target("blank", 0)

\* the routes of the application
UserTargets ==
  {Target(n, 0) : n \in {"root", "login", "dashboard", "team", "worklogs", "form"}}
  \cup {Target("form", 1)}
  \cup {Target("employee", i) : i \in ViewEmployeeIds}

\* the URLs the user types into the address bar or has bookmarked
AddressBarTargets ==
  {Target(n, 0) : n \in {"root", "login", "dashboard"}}
  \cup {Target("employee", i) : i \in ViewEmployeeIds}

PathOf(t) ==
  CASE t.name = "root" -> RootPath
    [] t.name = "login" -> LoginPath
    [] t.name = "dashboard" -> DashboardPath
    [] t.name = "team" -> <<"/", "team">>
    [] t.name = "employee" -> <<"/", "employees", "/", ToString(t.id)>>
    [] t.name = "worklogs" -> <<"/", "worklogs">>
    [] t.name = "form" ->
         IF t.id = 0 THEN <<"/", "worklogs", "/", "new">>
         ELSE <<"/", "worklogs", "/", ToString(t.id), "/", "edit">>

\* a return path that is not looked at
TargetOfPathIgnored(path) == Target("dashboard", 0)

\* the route a pathname names
TargetOfPath(path) == CHOOSE t \in UserTargets : PathOf(t) = path

ClientPaths == {PathOf(t) : t \in UserTargets}

\* the guard's answer to every request the browser can make
GuardAnswers ==
  [p \in ClientPaths, c \in {"none", "valid", "expired"}, g \in GuardVersions |->
     runMiddleware(g, p, IF c = "none" THEN Undefined ELSE c)]

\* one pass of the request for t through the guard: t itself, or where the
\* guard redirects to
GuardStep(t, cookie, version) ==
  LET resp == GuardAnswers[PathOf(t), cookie, version]
  IN IF resp.kind = "next" THEN t
     ELSE IF resp.url.pathname = LoginPath
          THEN [name |-> "login", id |-> 0, q |-> {},
                from |-> IF searchParamsHas(resp.url, "from")
                         THEN {searchParamsGet(resp.url, "from")} ELSE {}]
     ELSE Target("dashboard", 0)

\* the page the browser ends on after following the guard's redirects
FinalTarget(t, cookie, version) ==
  GuardStep(GuardStep(GuardStep(t, cookie, version), cookie, version), cookie, version)

SameRoute(t, u) == t.name = u.name /\ t.id = u.id

\* a request in flight: what it fetches, whether the component that awaits
\* it is still mounted, the arguments it was issued with and, for a login,
\* the 'from' parameter its handler has read
Req(kind, args) == [kind |-> kind, live |-> TRUE, args |-> args, from |-> {}]
DeadReq(kind, args) == [kind |-> kind, live |-> FALSE, args |-> args, from |-> {}]

NavbarKinds == {"navbar.me", "navbar.logout"}
\* requests whose continuation reads its arguments again after unmount
ClosureKinds == {"emp.me", "emp.employee"}
\* requests whose continuation does more than set state
EffectKinds ==
  {"navbar.logout", "login.submit", "emp.me", "emp.employee", "worklogs.delete",
   "form.submit"}

\* the component awaiting r is gone: of a continuation that only sets state
\* nothing is left but the response passing the interceptor
Stale(r) ==
  IF r.kind \in EffectKinds
  THEN [r EXCEPT !.live = FALSE,
                 !.args = IF r.kind \in ClosureKinds THEN r.args ELSE << >>]
  ELSE DeadReq("stale", << >>)

Retire(r, navbarStays) ==
  IF navbarStays /\ r.kind \in NavbarKinds THEN r ELSE Stale(r)

RECURSIVE SumCounts(_, _)
SumCounts(S, b) ==
  IF S = {} THEN 0
  ELSE LET r == CHOOSE x \in S : TRUE IN b[r] + SumCounts(S \ {r}, b)

\* the components awaiting these requests unmount
RetireAll(b, navbarStays) ==
  LET S == {Retire(r, navbarStays) : r \in DOMAIN b}
  IN [x \in S |-> SumCounts({r \in DOMAIN b : Retire(r, navbarStays) = x}, b)]

UrlOf(kind) ==
  CASE kind = "login.submit" -> AuthLoginUrl
    [] kind = "navbar.logout" -> <<"/", "auth", "/", "logout">>
    [] kind \in {"navbar.me", "stats.me", "team.me", "emp.me"} -> <<"/", "auth", "/", "me">>
    [] OTHER -> <<"/", "x">>

ConfigOf(url) == [hasConfig |-> TRUE, url |-> {url}]

\* 0 stands for a transport failure (no response)
FailStatuses == {0, 401, 403, 500}

ResponseOf(status) ==
  IF status = 0 THEN JsUndefined
  ELSE Obj(FALSE, [status |-> Num(status), data |-> JsUndefined])

RequestKinds ==
  {"navbar.me", "navbar.logout", "login.submit", "dashboard.load", "stats.me",
   "stats.quick", "team.me", "team.visible", "team.worklogs", "emp.me",
   "emp.employee", "emp.worklogs", "emp.dashboard", "worklogs.load",
   "worklogs.delete", "edit.load", "form.types", "form.submit", "stale"}

\* what the response interceptor does with every failure the client can see
InterceptorOutcomes ==
  [u \in {UrlOf(k) : k \in RequestKinds}, s \in FailStatuses, p \in ClientPaths |->
     interceptor(ConfigOf(u), ResponseOf(s), p)]

NoNavbar == [mounted |-> FALSE, isLoading |-> FALSE, user |-> {}]
FreshNavbar == [mounted |-> TRUE, isLoading |-> TRUE, user |-> {}]

\* getInitialDates of the employee detail page
getInitialDates(q) ==
  IF q # {} THEN CHOOSE x \in q : TRUE
  ELSE LET w == getDateRangeForPeriod("week", NewDate)
       IN [startDate |-> w.startDate, endDate |-> w.endDate, periodFilter |-> "week"]

\* the state a page component starts with
MountView(t) ==
  LET w == getDateRangeForPeriod("week", NewDate) IN
  CASE t.name = "login" -> [isLoading |-> FALSE]
    [] t.name = "dashboard" ->
         [isLoading |-> TRUE, dashboard |-> {}, stats |-> "none", periodFilter |-> "week",
          startDate |-> w.startDate, endDate |-> w.endDate]
    [] t.name = "team" ->
         [isLoading |-> TRUE, settled |-> "none", user |-> {}, employees |-> {},
          worklogs |-> {}, selectedEmployee |-> 0, periodFilter |-> "week",
          startDate |-> w.startDate, endDate |-> w.endDate]
    [] t.name = "employee" ->
         [isLoading |-> TRUE, currentUser |-> {}, employee |-> {},
          worklogs |-> {}, dashboard |-> {},
          periodFilter |-> getInitialDates(t.q).periodFilter,
          startDate |-> getInitialDates(t.q).startDate,
          endDate |-> getInitialDates(t.q).endDate]
    [] t.name = "worklogs" ->
         [isLoading |-> TRUE, worklogs |-> {},
          startDate |-> w.startDate, endDate |-> w.endDate]
    [] t.name = "form" ->
         [isLoading |-> FALSE, worklogTypes |-> FALSE,
          worklog |-> IF t.id = 0 THEN "new" ELSE "loading"]
    [] OTHER -> [isLoading |-> FALSE]

\* mount effects that fetch the employee along with the user
MountRequestsInParallel(t, v) ==
  CASE t.name = "dashboard" -> {Req("dashboard.load", <<v.startDate, v.endDate>>)}
    [] t.name = "team" -> {Req("team.me", << >>), Req("team.visible", << >>)}
    [] t.name = "employee" -> {Req("emp.me", <<t.id>>), Req("emp.employee", <<t.id>>)}
    [] t.name = "worklogs" -> {Req("worklogs.load", <<v.startDate, v.endDate>>)}
    [] t.name = "form" ->
         IF t.id = 0 THEN {Req("form.types", << >>)} ELSE {Req("edit.load", <<t.id>>)}
    [] OTHER -> {}

\* the requests its mount effects issue
MountRequests(t, v) ==
  CASE t.name = "dashboard" -> {Req("dashboard.load", <<v.startDate, v.endDate>>)}
    [] t.name = "team" -> {Req("team.me", << >>), Req("team.visible", << >>)}
    [] t.name = "employee" -> {Req("emp.me", <<t.id>>)}
    [] t.name = "worklogs" -> {Req("worklogs.load", <<v.startDate, v.endDate>>)}
    [] t.name = "form" ->
         IF t.id = 0 THEN {Req("form.types", << >>)} ELSE {Req("edit.load", <<t.id>>)}
    [] OTHER -> {}

Tagged(reqs, by) == {[kind |-> q.kind, by |-> by] : q \in reqs}

\* what the last step was: the kind of event, the request that failed in it,
\* the requests it issued, each with the code that issued it, when the
\* permission check of the employee page ran in it, the employee checked with
\* the toasts and the navigation of that run, the request whose response
\* arrived in it, and the navigation it asked for
Ev(event) ==
  [event |-> event, failed |-> "none", issued |-> {}, gate |-> {}, done |-> {},
   nav |-> {}]

\* A handler has run: the view and navbar state it leaves, the requests in
\* flight after it, the requests it issued, the navigation it asked for (none,
\* or a target with hard = TRUE for window.location.href and FALSE for
\* router.push) and the cookie the browser holds afterwards.  A navigation
\* passes the guard, mounts the page it ends on and issues its mount requests.
Apply(ev, v1, nb1, bag1, issued1, nav, cookie1) ==
  LET n == CHOOSE x \in nav : TRUE
      f == IF nav = {} THEN page ELSE FinalTarget(n.target, cookie1, session.guard)
      hard == nav # {} /\ n.hard
      stay == nav = {} \/ (~hard /\ SameRoute(f, page))
      fv == MountView(f)
      layoutMounts == f.name \in GroupPages /\ (hard \/ page.name \notin GroupPages)
      navbarStays == f.name \in GroupPages /\ ~layoutMounts
      mountReqs == MountRequests(f, fv)
                   \cup (IF layoutMounts THEN {Req("navbar.me", << >>)} ELSE {})
  IN
  /\ session' = [session EXCEPT !.cookie = cookie1]
  /\ IF stay
     THEN /\ page' = f
          /\ view' = v1
          /\ navbar' = nb1
          /\ inflight' = bag1
          /\ last' = [ev EXCEPT !.issued = issued1]
     ELSE /\ page' = f
          /\ view' = fv
          /\ navbar' = IF navbarStays THEN nb1
                       ELSE IF layoutMounts THEN FreshNavbar ELSE NoNavbar
          /\ inflight' = (IF hard THEN EmptyBag ELSE RetireAll(bag1, navbarStays))
                         (+) SetToBag(mountReqs)
          /\ last' = [ev EXCEPT !.issued = issued1 \cup Tagged(mountReqs, "mount")]
  /\ BagCardinality(inflight') <= MaxInflight

Hard(t) == {[target |-> t, hard |-> TRUE]}
Soft(t) == {[target |-> t, hard |-> FALSE]}

\* the browser is open on no page; the visitor has no session or a valid one
InitClient ==
  /\ session \in [cookie : {"none", "valid"}, guard : GuardVersions,
                  me : ViewUsers]
  /\ navbar = NoNavbar
  /\ page = BlankPage
  /\ view = MountView(BlankPage)
  /\ inflight = EmptyBag
  /\ last = Ev("init")
  /\ guard = IdleGuard
  /\ icpt = IdleIcpt
  /\ ext = IdleExt
  /\ perm = IdlePerm
  /\ IdlePure

others == <<guard, icpt, ext, perm, calc, form>>

\* the user types a URL: a full page load
OpenUrl ==
  /\ \E t \in AddressBarTargets :
       Apply(Ev("user"), view, navbar, inflight, {}, Hard(t), session.cookie)
  /\ UNCHANGED others

\* the session times out on the backend
SessionExpires ==
  /\ session.cookie = "valid"
  /\ session' = [session EXCEPT !.cookie = "expired"]
  /\ last' = Ev("env")
  /\ UNCHANGED <<navbar, page, view, inflight, others>>

(***************************************************************************)
(* Response handling of the views                                          *)
(***************************************************************************)
StatsKinds == {"stats.me", "stats.quick"}

\* a request issued by the continuation of r: nobody awaits its state
\* updates when r's component is gone
Issue(r, kind, args) ==
  IF r.live THEN Req(kind, args) ELSE Stale(Req(kind, args))

\* a handler that changes nothing
Eff0 ==
  [v |-> view, nb |-> navbar, reqs |-> {}, by |-> "none", retry |-> {},
   nav |-> {}, toasts |-> 0]

\* <DashboardStats /> is rendered only below the loaded dashboard
StatsShown(v) == ~v.isLoading /\ v.dashboard # {}

\* its mount effect: Promise.all([getCurrentUser(), getQuickStats()])
StatsMount == {Req("stats.me", << >>), Req("stats.quick", << >>)}

\* one more promise of a Promise.all pair settles
Fulfil(settled) ==
  CASE settled = "none" -> "one" [] settled = "one" -> "done" [] OTHER -> settled
Reject(settled) == IF settled \in {"none", "one"} THEN "rej" ELSE settled

\* the employee detail page is asked for employee id
EmployeeAnswers(id) == {e \in ViewEmployees : e.id = id}
NoEmployee == CHOOSE e \in ViewEmployees : TRUE

\* a permission check that shows the toast and stays on the page
permissionGateToastOnly(user, emp) ==
  IF ~canViewEmployeeData(user, emp)
  THEN [toasts |-> 1, nav |-> {}]
  ELSE [toasts |-> 0, nav |-> {}]

\* the permission check of loadInitialData: toast.error and
\* router.push("/dashboard") when the user may not view the employee
permissionGate(user, emp) ==
  IF ~canViewEmployeeData(user, emp)
  THEN [toasts |-> 1, nav |-> Soft(Target("dashboard", 0))]
  ELSE [toasts |-> 0, nav |-> {}]

\* the continuation after 'await' of request r when it succeeded
OnOk(r, e) ==
  CASE r.kind = "navbar.me" ->
         IF r.live
         THEN [Eff0 EXCEPT !.nb = [navbar EXCEPT !.user = {session.me}, !.isLoading = FALSE]]
         ELSE Eff0
    [] r.kind = "navbar.logout" ->
         [Eff0 EXCEPT !.nav = Soft(Target("login", 0))]
    [] r.kind = "login.submit" ->
         [Eff0 EXCEPT
            !.v = IF r.live THEN [view EXCEPT !.isLoading = FALSE] ELSE view,
            !.nav = IF r.from # {}
                    THEN Soft(TargetOfPath(CHOOSE p \in r.from : TRUE))
                    ELSE Soft(Target("dashboard", 0))]
    [] r.kind = "dashboard.load" /\ r.live ->
         [Eff0 EXCEPT
            !.v = [view EXCEPT !.isLoading = FALSE, !.dashboard = {r.args},
                               !.stats = "loading"],
            !.reqs = StatsMount, !.by = "mount"]
    [] r.kind \in StatsKinds /\ r.live ->
         [Eff0 EXCEPT !.v = [view EXCEPT !.stats = Fulfil(view.stats)]]
    [] r.kind \in {"team.me", "team.visible"} /\ r.live ->
         IF view.settled = "one"
         THEN [Eff0 EXCEPT
                 !.v = [view EXCEPT !.settled = "done", !.user = {session.me},
                                    !.employees = ViewEmployeeIds,
                                    !.isLoading = FALSE],
                 !.reqs = {Req("team.worklogs",
                               <<view.startDate, view.endDate, view.selectedEmployee>>)},
                 !.by = "effect"]
         ELSE [Eff0 EXCEPT !.v = [view EXCEPT !.settled = Fulfil(view.settled)]]
    [] r.kind = "team.worklogs" /\ r.live ->
         [Eff0 EXCEPT !.v = [view EXCEPT !.worklogs = {r.args}]]
    [] r.kind = "emp.me" ->
         [Eff0 EXCEPT
            !.v = IF r.live THEN [view EXCEPT !.currentUser = {session.me}] ELSE view,
            !.reqs = {Issue(r, "emp.employee", r.args)}, !.by = "handler"]
    [] r.kind = "emp.employee" ->
         LET gate == permissionGate(session.me, e) IN
         [Eff0 EXCEPT
            !.v = IF r.live
                  THEN [view EXCEPT !.employee = {e}, !.isLoading = FALSE]
                  ELSE view,
            !.reqs = IF r.live
                     THEN {Req("emp.worklogs", <<view.startDate, view.endDate>>),
                           Req("emp.dashboard", <<view.startDate, view.endDate>>)}
                     ELSE {},
            !.by = "effect",
            !.toasts = gate.toasts,
            !.nav = gate.nav]
    [] r.kind = "emp.worklogs" /\ r.live ->
         [Eff0 EXCEPT !.v = [view EXCEPT !.worklogs = {r.args}]]
    [] r.kind = "emp.dashboard" /\ r.live ->
         [Eff0 EXCEPT !.v = [view EXCEPT !.dashboard = {r.args}]]
    [] r.kind = "worklogs.load" /\ r.live ->
         [Eff0 EXCEPT !.v = [view EXCEPT !.worklogs = {r.args}, !.isLoading = FALSE]]
    [] r.kind = "worklogs.delete" ->
         [Eff0 EXCEPT
            !.v = IF r.live THEN [view EXCEPT !.isLoading = TRUE] ELSE view,
            !.reqs = {Issue(r, "worklogs.load",
                            IF r.live THEN <<view.startDate, view.endDate>> ELSE << >>)},
            !.by = "handler"]
    [] r.kind = "edit.load" /\ r.live ->
         [Eff0 EXCEPT !.v = [view EXCEPT !.worklog = "loaded"],
                      !.reqs = {Req("form.types", << >>)}, !.by = "mount"]
    [] r.kind = "form.types" /\ r.live ->
         [Eff0 EXCEPT !.v = [view EXCEPT !.worklogTypes = TRUE]]
    [] r.kind = "form.submit" ->
         [Eff0 EXCEPT
            !.v = IF r.live THEN [view EXCEPT !.isLoading = FALSE] ELSE view,
            !.nav = Soft(Target("worklogs", 0))]
    [] OTHER -> Eff0

\* a catch block that issues the failed request again
catchRequestsRetry(r) == {r}

\* the requests the catch and finally blocks of the views issue: none
catchRequests(r) == {}

\* the catch and finally blocks run for request r
OnFail(r) ==
  LET base == [Eff0 EXCEPT !.retry = catchRequests(r)] IN
  CASE r.kind = "navbar.me" ->
         IF r.live THEN [base EXCEPT !.nb = [navbar EXCEPT !.isLoading = FALSE]]
         ELSE base
    [] r.kind = "navbar.logout" -> [base EXCEPT !.toasts = 1]
    [] r.kind = "login.submit" ->
         [base EXCEPT
            !.v = IF r.live THEN [view EXCEPT !.isLoading = FALSE] ELSE view,
            !.toasts = 1]
    [] r.kind = "dashboard.load" /\ r.live ->
         LET v1 == [view EXCEPT !.isLoading = FALSE,
                      !.stats = IF view.dashboard # {} THEN "loading" ELSE "none"]
         IN IF StatsShown(v1)
            THEN [base EXCEPT !.v = v1, !.toasts = 1, !.by = "mount",
                              !.reqs = StatsMount]
            ELSE [base EXCEPT !.v = v1, !.toasts = 1]
    [] r.kind \in StatsKinds /\ r.live ->
         [base EXCEPT !.v = [view EXCEPT !.stats = Reject(view.stats)]]
    [] r.kind \in {"team.me", "team.visible"} /\ r.live ->
         IF view.settled \in {"none", "one"}
         THEN [base EXCEPT !.v = [view EXCEPT !.settled = "rej", !.isLoading = FALSE],
                           !.toasts = 1]
         ELSE base
    [] r.kind \in {"emp.me", "emp.employee"} ->
         [base EXCEPT
            !.v = IF r.live THEN [view EXCEPT !.isLoading = FALSE] ELSE view,
            !.toasts = 1,
            !.nav = Soft(Target("dashboard", 0))]
    [] r.kind = "emp.dashboard" -> base
    [] r.kind = "worklogs.load" /\ r.live ->
         [base EXCEPT !.v = [view EXCEPT !.isLoading = FALSE], !.toasts = 1]
    [] r.kind = "edit.load" /\ r.live ->
         [base EXCEPT !.v = [view EXCEPT !.worklog = "missing"], !.toasts = 1]
    [] r.kind = "form.submit" ->
         [base EXCEPT
            !.v = IF r.live THEN [view EXCEPT !.isLoading = FALSE] ELSE view,
            !.toasts = 1]
    [] OTHER -> [base EXCEPT !.toasts = 1]

\* the backend accepts a request that carries a live session; a login
\* request carries credentials instead
Authenticated(r) == r.kind = "login.submit" \/ session.cookie = "valid"

\* a request succeeds and its continuation runs
RespondOk ==
  /\ \E r \in DOMAIN inflight :
       /\ Authenticated(r)
       /\ \E e \in (IF r.kind = "emp.employee" THEN EmployeeAnswers(r.args[1])
                    ELSE {NoEmployee}) :
          \E c \in (CASE r.kind = "navbar.logout" -> {"none"}
                      [] r.kind = "login.submit" -> {"valid"}
                      [] OTHER -> {session.cookie}) :
            LET eff == OnOk(r, e) IN
            Apply([Ev("ok") EXCEPT
                     !.gate =
                       IF r.kind = "emp.employee"
                       THEN {[employee |-> e, toasts |-> eff.toasts, pushed |-> eff.nav]}
                       ELSE {},
                     !.done = {r}, !.nav = eff.nav],
                  eff.v, eff.nb,
                  (inflight (-) SetToBag({r})) (+) SetToBag(eff.reqs),
                  Tagged(eff.reqs, eff.by), eff.nav, c)
  /\ UNCHANGED others

\* a request fails: the response interceptor runs, then the caller's catch
\* and finally blocks.  When the interceptor assigns window.location.href and
\* the catch block calls router.push, either navigation may win.
RespondFail ==
  /\ \E r \in DOMAIN inflight, status \in FailStatuses :
       /\ status = 401 => r.kind = "login.submit" \/ session.cookie # "valid"
       /\ LET out == InterceptorOutcomes[UrlOf(r.kind), status, PathOf(page)]
              eff == IF out.rejected # {} THEN OnFail(r) ELSE Eff0
              navs == IF out.href = {} THEN {eff.nav}
                      ELSE {Hard(Target("login", 0))}
                           \cup (IF eff.nav = {} THEN {} ELSE {eff.nav})
          IN \E n \in navs :
               Apply([Ev("fail") EXCEPT !.failed = r.kind, !.done = {r}, !.nav = n],
                     eff.v, eff.nb,
                     (inflight (-) SetToBag({r})) (+) SetToBag(eff.reqs)
                       (+) SetToBag(eff.retry),
                     Tagged(eff.reqs, eff.by) \cup Tagged(eff.retry, "handler"),
                     n, session.cookie)
  /\ UNCHANGED others

(***************************************************************************)
(* What the user can do on the rendered page                               *)
(***************************************************************************)
NavbarShown == navbar.mounted /\ ~navbar.isLoading

\* the navigation entries of the navbar
NavbarLinks ==
  {Target("dashboard", 0), Target("worklogs", 0)}
  \cup (IF canViewTeamData(navbar.user) THEN {Target("team", 0)} ELSE {})

NavbarLink ==
  /\ NavbarShown
  /\ \E t \in NavbarLinks :
       Apply(Ev("user"), view, navbar, inflight, {}, Soft(t), session.cookie)
  /\ UNCHANGED others

\* a click handler issues the requests reqs and leaves the view as v1
Click(v1, bag1, reqs, by) ==
  Apply(Ev("user"), v1, navbar, bag1 (+) SetToBag(reqs),
        Tagged(reqs, by), {}, session.cookie)

Logout ==
  /\ NavbarShown
  /\ Click(view, inflight, {Req("navbar.logout", << >>)}, "handler")
  /\ UNCHANGED others

\* handlePeriodChange and the two date inputs of dashboard, team and
\* employee page
PeriodChoices ==
  {[startDate |-> getDateRangeForPeriod(p, NewDate).startDate,
    endDate |-> getDateRangeForPeriod(p, NewDate).endDate,
    periodFilter |-> p] : p \in {"week", "month"}}
  \cup {[startDate |-> d, endDate |-> view.endDate, periodFilter |-> "custom"] :
          d \in StartInputs}
  \cup {[startDate |-> view.startDate, endDate |-> d, periodFilter |-> "custom"] :
          d \in EndInputs}

\* the buttons and date inputs of the worklogs page
WorklogsChoices ==
  LET today == NewDate
      lastWeekStart == Date(today.day - 7, today.ms)
  IN
  {[startDate |-> format(startOfWeek(today)), endDate |-> format(endOfWeek(today))],
   [startDate |-> format(startOfWeek(lastWeekStart)),
    endDate |-> format(endOfWeek(lastWeekStart))]}
  \cup {[startDate |-> d, endDate |-> view.endDate] : d \in StartInputs}
  \cup {[startDate |-> view.startDate, endDate |-> d] : d \in EndInputs}

RetireKinds(b, K) ==
  LET R(r) == IF r.kind \in K THEN Stale(r) ELSE r
      S == {R(r) : r \in DOMAIN b}
  IN [x \in S |-> SumCounts({r \in DOMAIN b : R(r) = x}, b)]

\* period controls that are rendered in every state of a view
PeriodControlsAlwaysShown == page.name \in {"dashboard", "team", "employee"}

\* the period buttons and date inputs are rendered: the dashboard, the team
\* page and the employee page return a skeleton while isLoading, the dashboard
\* and the employee page nothing without their data
PeriodControlsShown ==
  CASE page.name = "dashboard" -> StatsShown(view)
    [] page.name = "team" -> ~view.isLoading
    [] page.name = "employee" -> ~view.isLoading /\ view.employee # {}
    [] OTHER -> FALSE

\* the period or a date changes; the effect on [startDate, endDate] runs
\* when one of them has a new value
ChangeDates ==
  /\ \/ /\ page.name = "dashboard" /\ PeriodControlsShown
        /\ \E c \in PeriodChoices :
             LET changed == <<c.startDate, c.endDate>> # <<view.startDate, view.endDate>>
                 v1 == [view EXCEPT !.startDate = c.startDate, !.endDate = c.endDate,
                                    !.periodFilter = c.periodFilter]
             IN IF changed
                THEN Click([v1 EXCEPT !.isLoading = TRUE, !.stats = "none"],
                           RetireKinds(inflight, StatsKinds),
                           {Req("dashboard.load", <<c.startDate, c.endDate>>)}, "effect")
                ELSE Click(v1, inflight, {}, "effect")
     \/ /\ page.name = "team" /\ PeriodControlsShown
        /\ \E c \in PeriodChoices :
             LET changed == <<c.startDate, c.endDate>> # <<view.startDate, view.endDate>>
                 v1 == [view EXCEPT !.startDate = c.startDate, !.endDate = c.endDate,
                                    !.periodFilter = c.periodFilter]
             IN Click(v1, inflight,
                      IF changed /\ view.user # {}
                      THEN {Req("team.worklogs",
                                <<c.startDate, c.endDate, view.selectedEmployee>>)}
                      ELSE {}, "effect")
     \/ /\ page.name = "employee" /\ PeriodControlsShown
        /\ \E c \in PeriodChoices :
             LET changed == <<c.startDate, c.endDate>> # <<view.startDate, view.endDate>>
                 v1 == [view EXCEPT !.startDate = c.startDate, !.endDate = c.endDate,
                                    !.periodFilter = c.periodFilter]
             IN Click(v1, inflight,
                      IF changed /\ view.currentUser # {}
                      THEN {Req("emp.worklogs", <<c.startDate, c.endDate>>),
                            Req("emp.dashboard", <<c.startDate, c.endDate>>)}
                      ELSE {}, "effect")
     \/ /\ page.name = "worklogs"
        /\ \E c \in WorklogsChoices :
             LET changed == <<c.startDate, c.endDate>> # <<view.startDate, view.endDate>>
                 v1 == [view EXCEPT !.startDate = c.startDate, !.endDate = c.endDate]
             IN IF changed
                THEN Click([v1 EXCEPT !.isLoading = TRUE], inflight,
                           {Req("worklogs.load", <<c.startDate, c.endDate>>)}, "effect")
                ELSE Click(v1, inflight, {}, "effect")
  /\ UNCHANGED others

\* the employee filter of the team page
SelectEmployee ==
  /\ page.name = "team" /\ ~view.isLoading
  /\ \E i \in (view.employees \cup {0}) \ {view.selectedEmployee} :
       Click([view EXCEPT !.selectedEmployee = i], inflight,
             IF view.user # {}
             THEN {Req("team.worklogs", <<view.startDate, view.endDate, i>>)}
             ELSE {}, "effect")
  /\ UNCHANGED others

\* the link of an employee row of the team page; it carries the period
OpenEmployee ==
  /\ page.name = "team" /\ ~view.isLoading /\ view.worklogs # {}
  /\ \E i \in view.employees :
       Apply(Ev("user"), view, navbar, inflight, {},
             Soft([name |-> "employee", id |-> i, from |-> {},
                   q |-> {[startDate |-> view.startDate, endDate |-> view.endDate,
                           periodFilter |-> view.periodFilter]}]),
             session.cookie)
  /\ UNCHANGED others

\* handleBackNavigation of the employee page
EmployeeBack ==
  /\ page.name = "employee" /\ ~view.isLoading /\ view.employee # {}
  /\ Apply(Ev("user"), view, navbar, inflight, {},
           Soft(Target("team", 0)), session.cookie)
  /\ UNCHANGED others

\* 'Add Worklog' and the edit button of a listed worklog
OpenForm ==
  /\ page.name = "worklogs"
  /\ \E id \in {0, 1} :
       /\ id = 1 => ~view.isLoading /\ view.worklogs # {}
       /\ Apply(Ev("user"), view, navbar, inflight, {},
                Soft(Target("form", id)), session.cookie)
  /\ UNCHANGED others

\* handleDelete, confirmed
DeleteWorklog ==
  /\ page.name = "worklogs" /\ ~view.isLoading /\ view.worklogs # {}
  /\ Click(view, inflight, {Req("worklogs.delete", << >>)}, "handler")
  /\ UNCHANGED others

FormShown == page.name = "form" /\ view.worklog \in {"new", "loaded"}

\* onSubmit of the worklog form with valid data
SubmitForm ==
  /\ FormShown /\ ~view.isLoading
  /\ Click([view EXCEPT !.isLoading = TRUE], inflight,
           {Req("form.submit", << >>)}, "handler")
  /\ UNCHANGED others

FormCancel ==
  /\ FormShown
  /\ Apply(Ev("user"), view, navbar, inflight, {},
           Soft(Target("worklogs", 0)), session.cookie)
  /\ UNCHANGED others

\* onSubmit of the login form
SubmitLogin ==
  /\ page.name = "login" /\ ~view.isLoading
  /\ Click([view EXCEPT !.isLoading = TRUE], inflight,
           {[Req("login.submit", << >>) EXCEPT !.from = page.from]}, "handler")
  /\ UNCHANGED others

NextClient ==
  \/ OpenUrl
  \/ SessionExpires
  \/ NavbarLink
  \/ Logout
  \/ ChangeDates
  \/ SelectEmployee
  \/ OpenEmployee
  \/ EmployeeBack
  \/ OpenForm
  \/ DeleteWorklog
  \/ SubmitForm
  \/ FormCancel
  \/ SubmitLogin
  \/ RespondOk
  \/ RespondFail

SpecClient == InitClient /\ [][NextClient]_vars

(***************************************************************************)
(* Claims about the views                                                  *)
(***************************************************************************)
\* the requests the page now shown issues when it mounts
MountKinds ==
  {q.kind : q \in MountRequests(page, MountView(page))}
  \cup (IF page.name \in GroupPages THEN {"navbar.me"} ELSE {})

\* C7 as stated: after a request has failed, the client issues no request
\* before the next user action -- the step that handles a failure issues none.
C7_NoRequestAfterFailureAsClaimed ==
  last.event = "fail" => last.issued = {}

\* C7, amended: the step that handles a failed request issues requests only
\* from mount effects -- of the page its redirect lands on, of the layout a
\* full page load mounts, or of the statistics panel that is rendered again
\* when a reload of the dashboard has failed -- never from a catch block, a
\* handler or a dependency effect; and the fetch that failed is issued again only when
\* the older guard bounces the 401 redirect from /login back to /dashboard.
C7_OnlyMountFetchesAfterFailure ==
  last.event = "fail" =>
    /\ \A i \in last.issued :
         /\ i.by = "mount"
         /\ \/ i.kind \in MountKinds
            \/ i.kind \in StatsKinds /\ last.failed = "dashboard.load"
    /\ (\E i \in last.issued : i.kind = last.failed) =>
         /\ session.guard = "loginBounce"
         /\ page.name = "dashboard"
         /\ last.failed \in {"dashboard.load", "navbar.me"}

\* a reload of the dashboard has failed over the data loaded before, and the
\* statistics panel, mounted again, has issued its two requests
C7_Witness ==
  /\ last.event = "fail"
  /\ last.failed = "dashboard.load"
  /\ page.name = "dashboard"
  /\ view.dashboard # {}
  /\ {i.kind : i \in last.issued} = StatsKinds

HOURS_PER_DAY == 8

\* a weekend test that knows Sundays only
isWeekendSundayOnly(d) == (d - 1) % 7 = 6

\* isWeekend: getDay() is 6 or 0; day 1 is a Monday
isWeekend(d) == (d - 1) % 7 \in {5, 6}

\* what a call does: it returns a value or throws
Returned(value) == [threw |-> FALSE, error |-> "", value |-> value]
Thrown(error) == [threw |-> TRUE, error |-> error, value |-> 0]

\* The source does not pin the date-fns release it is built with.  Up to
\* release 2 eachDayOfInterval throws RangeError for an invalid or reversed
\* interval; from release 3 on it returns no day for an Invalid Date and the
\* days in descending order for a reversed interval.
Libs == {"throwing", "reversing"}

eachDayOfInterval(start, end, lib) ==
  IF ~start.valid \/ ~end.valid
  THEN IF lib = "throwing" THEN Thrown("RangeError") ELSE Returned(<< >>)
  ELSE IF start.day <= end.day
  THEN Returned([i \in 1 .. (end.day - start.day + 1) |-> start.day + i - 1])
  ELSE IF lib = "throwing" THEN Thrown("RangeError")
  ELSE Returned([i \in 1 .. (start.day - end.day + 1) |-> start.day - i + 1])

calculateWorkingDays(startDate, endDate, lib) ==
  LET start == parseISO(startDate)
      end == parseISO(endDate)
      allDays == eachDayOfInterval(start, end, lib)
      weekday(day) == ~isWeekend(day)
  IN IF allDays.threw THEN allDays
     ELSE Returned(Len(SelectSeq(allDays.value, weekday)))

calculateExpectedHours(startDate, endDate, lib) ==
  LET workingDays == calculateWorkingDays(startDate, endDate, lib)
  IN IF workingDays.threw THEN workingDays
     ELSE Returned(workingDays.value * HOURS_PER_DAY)

\* a page is rendered with two date strings in its state
InitDates ==
  /\ calc \in [phase : {"args"}, lib : Libs,
               startDate : DateStrings, endDate : DateStrings]
  /\ form = [phase |-> "idle"]
  /\ guard = IdleGuard
  /\ icpt = IdleIcpt
  /\ ext = IdleExt
  /\ perm = IdlePerm
  /\ IdleClient

Called(op, result) ==
  [phase |-> op, lib |-> calc.lib, startDate |-> calc.startDate,
   endDate |-> calc.endDate, result |-> result]

CalculateWorkingDays ==
  /\ calc.phase = "args"
  /\ calc' = Called("workingDays",
                    calculateWorkingDays(calc.startDate, calc.endDate, calc.lib))
  /\ UNCHANGED <<guard, icpt, ext, perm, client, form>>

CalculateExpectedHours ==
  /\ calc.phase = "args"
  /\ calc' = Called("expectedHours",
                    calculateExpectedHours(calc.startDate, calc.endDate, calc.lib))
  /\ UNCHANGED <<guard, icpt, ext, perm, client, form>>

NextDates == CalculateWorkingDays \/ CalculateExpectedHours

SpecDates == InitDates /\ [][NextDates]_vars

\* the Saturdays and Sundays of the calendar, counted from
\* Saturday 2024-01-06 and Sunday 2024-01-07
WeekendDays == {d \in 1 .. (MaxDay + 1) : d % 7 \in {6, 0}}
WeekdaysIn(a, b) == Cardinality({d \in a .. b : d \notin WeekendDays})

BothParse == calc.startDate \in CalendarDays /\ calc.endDate \in CalendarDays
CalcDone == calc.phase \in {"workingDays", "expectedHours"}
PerDay == IF calc.phase = "expectedHours" THEN 8 ELSE 1

\* C12 as stated: for any two calendar dates workingDays is the number of days
\* d with start <= d <= end that are not Saturday or Sunday, and expectedHours
\* is 8 times that.
C12_WorkingDaysAsClaimed ==
  CalcDone /\ BothParse =>
    /\ ~calc.result.threw
    /\ calc.result.value = PerDay * WeekdaysIn(calc.startDate, calc.endDate)

\* C12, amended: that count is returned when start <= end (1 or 0 for a single
\* day, 5 for every Monday-to-Sunday range); when start is after end the call
\* throws RangeError or returns the count of the reversed range, depending on
\* the date-fns release.  expectedHours is 8 times workingDays whenever
\* workingDays returns, and throws when it throws.
C12_WorkingDays ==
  CalcDone /\ BothParse =>
    LET s == calc.startDate
        e == calc.endDate
        r == calc.result
    IN /\ s <= e => ~r.threw /\ r.value = PerDay * WeekdaysIn(s, e)
       /\ s = e => r.value = PerDay * (IF s \in WeekendDays THEN 0 ELSE 1)
       /\ s % 7 = 1 /\ e = s + 6 => r.value = PerDay * 5
       /\ s > e /\ calc.lib = "throwing" => r.threw /\ r.error = "RangeError"
       /\ s > e /\ calc.lib = "reversing" =>
            ~r.threw /\ r.value = PerDay * WeekdaysIn(e, s)

\* 2024-01-01 .. 2024-01-07, a full week from Monday to Sunday, has 5
C12_Witness ==
  /\ calc.phase = "workingDays"
  /\ calc.startDate = 1 /\ calc.endDate = 7
  /\ calc.result = Returned(5)

\* C13: workingDays fails whenever one of its bounds does not parse as a
\* calendar date; it never returns a number then.
C13_UnparseableBoundFails ==
  calc.phase = "workingDays" /\ ~BothParse => calc.result.threw

(***************************************************************************)
(* Utilization rate.  A JavaScript number that is not an integer is kept   *)
(* as a fraction num / den with den > 0.                                   *)
(***************************************************************************)
Rat(num, den) == [num |-> num, den |-> den]
RatLE(x, y) == x.num * y.den <= y.num * x.den
RatEq(x, y) == x.num * y.den = y.num * x.den
MathMin(x, y) == IF RatLE(x, y) THEN x ELSE y

\* the hours the rate is tried on
MaxHours == 40
ActualHours == (0 - 8) .. (2 * MaxHours)
ExpectedHours == (0 - 8) .. MaxHours

\* a rate that is not clipped
calculateUtilizationRateUnclipped(actualHours, expectedHours) ==
  IF expectedHours <= 0 THEN Rat(0, 1)
  ELSE Rat(actualHours * 100, expectedHours)

calculateUtilizationRate(actualHours, expectedHours) ==
  IF expectedHours <= 0 THEN Rat(0, 1)
  ELSE MathMin(Rat(100, 1), Rat(actualHours * 100, expectedHours))

\* every page but the one that calculates is idle
IdlePages ==
  /\ guard = IdleGuard
  /\ icpt = IdleIcpt
  /\ ext = IdleExt
  /\ perm = IdlePerm
  /\ IdleClient

InitRate ==
  /\ calc \in [phase : {"args"}, actualHours : ActualHours,
               expectedHours : ExpectedHours]
  /\ form = [phase |-> "idle"]
  /\ IdlePages

CalculateUtilizationRate ==
  /\ calc.phase = "args"
  /\ calc' = [phase |-> "utilizationRate", actualHours |-> calc.actualHours,
              expectedHours |-> calc.expectedHours,
              result |-> calculateUtilizationRate(calc.actualHours,
                                                  calc.expectedHours)]
  /\ UNCHANGED <<guard, icpt, ext, perm, client, form>>

NextRate == CalculateUtilizationRate

SpecRate == InitRate /\ [][NextRate]_vars

\* C14: the rate is 0 when expectedHours <= 0 and min(100, 100 * actualHours /
\* expectedHours) otherwise; it is never above 100, and lies in [0, 100] when
\* actualHours is not negative.
C14_UtilizationRate ==
  calc.phase = "utilizationRate" =>
    LET a == calc.actualHours
        e == calc.expectedHours
        r == calc.result
    IN /\ r.den > 0
       /\ e <= 0 => r.num = 0
       /\ e > 0 /\ a >= e => r.num = 100 * r.den
       /\ e > 0 /\ a < e => r.num * e = 100 * a * r.den
       /\ r.num <= 100 * r.den
       /\ a >= 0 => r.num >= 0

\* utilizationRate(80, 40) is 100, not 200
C14_Witness ==
  /\ calc.phase = "utilizationRate"
  /\ calc.actualHours = 80 /\ calc.expectedHours = 40
  /\ calc.result = Rat(100, 1)

(***************************************************************************)
(* Period ranges (getDateRangeForPeriod)                                   *)
(***************************************************************************)
\* times of day of a reference date
TimesOfDay == {0, MiddayMs, EndOfDayMs}

Periods == {"week", "month"}

InitPeriod ==
  /\ calc \in [phase : {"args"}, period : Periods, day : CalendarDays,
               ms : TimesOfDay]
  /\ form = [phase |-> "idle"]
  /\ IdlePages

\* getDateRangeForPeriod(period, baseDate)
GetDateRangeForPeriod ==
  /\ calc.phase = "args"
  /\ calc' = [phase |-> "range", period |-> calc.period, day |-> calc.day,
              ms |-> calc.ms,
              range |-> getDateRangeForPeriod(calc.period,
                                              Date(calc.day, calc.ms))]
  /\ UNCHANGED <<guard, icpt, ext, perm, client, form>>

\* getDateRangeForPeriod(period, d) for a date d of the range just returned
GetDateRangeForPeriodAgain ==
  /\ calc.phase = "range"
  /\ \E d \in calc.range.startDate .. calc.range.endDate, t \in TimesOfDay :
       calc' = [phase |-> "again", period |-> calc.period, day |-> calc.day,
                ms |-> calc.ms, range |-> calc.range, inside |-> d,
                again |-> getDateRangeForPeriod(calc.period, Date(d, t))]
  /\ UNCHANGED <<guard, icpt, ext, perm, client, form>>

NextPeriod == GetDateRangeForPeriod \/ GetDateRangeForPeriodAgain

SpecPeriod == InitPeriod /\ [][NextPeriod]_vars

\* lengths of January .. April 2024
DaysInMonth == <<31, 29, 31, 30>>

RECURSIVE DaysBeforeMonth(_)
DaysBeforeMonth(m) == IF m = 1 THEN 0 ELSE DaysBeforeMonth(m - 1) + DaysInMonth[m - 1]

MonthOfDay(d) ==
  CHOOSE m \in 1 .. Len(DaysInMonth) :
    DaysBeforeMonth(m) < d /\ d <= DaysBeforeMonth(m) + DaysInMonth[m]

\* C15: for "week" the range runs from the Monday to the Sunday around the
\* reference date, for "month" from the first to the last day of its month,
\* and a date inside the returned range gives the same range again.
C15_DateRangeForPeriod ==
  /\ calc.phase \in {"range", "again"} =>
       LET r == calc.range IN
       IF calc.period = "week"
       THEN /\ (r.startDate - 1) % 7 = 0
            /\ r.endDate = r.startDate + 6
            /\ r.startDate <= calc.day /\ calc.day <= r.endDate
       ELSE LET m == MonthOfDay(calc.day) IN
            /\ r.startDate = DaysBeforeMonth(m) + 1
            /\ r.endDate = DaysBeforeMonth(m) + DaysInMonth[m]
  /\ calc.phase = "again" => calc.again = calc.range

\* Sunday 2024-01-21 at 23:59:59.999 gives 15..21, and so does Monday the 15th
C15_Witness ==
  /\ calc.phase = "again"
  /\ calc.period = "week" /\ calc.day = 21 /\ calc.ms = EndOfDayMs
  /\ calc.range = [startDate |-> 15, endDate |-> 21]
  /\ calc.inside = 15
  /\ calc.again = calc.range

(***************************************************************************)
(* Period labels (formatPeriodDescription)                                 *)
(***************************************************************************)
\* 2024 is a leap year; "2025-01-01" is the day after its last day
DaysIn2024 == 366
NewYear2025 == DaysIn2024 + 1

getYear(date) == IF date.day <= DaysIn2024 THEN 2024 ELSE 2025

\* isSameYear, isSameMonth: false when either date is Invalid Date
isSameYear(a, b) == a.valid /\ b.valid /\ getYear(a) = getYear(b)
isSameMonth(a, b) ==
  /\ isSameYear(a, b)
  /\ startOfMonth(a).day = startOfMonth(b).day

\* the label texts: a fixed text, or a pattern filled with the two dates
Label(text, start, end) == [text |-> text, start |-> start, end |-> end]

\* `${format(start, p)} - ${format(end, q)}`: format throws RangeError on
\* Invalid Date
Compact(text, start, end) ==
  IF start.valid /\ end.valid
  THEN Returned(Label(text, start.day, end.day))
  ELSE Thrown("RangeError")

formatPeriodDescription(startDate, endDate, now) ==
  LET start == parseISO(startDate)
      end == parseISO(endDate)
      currentWeekStart == startOfWeek(now)
      currentWeekEnd == endOfWeek(now)
      currentMonthStart == startOfMonth(now)
      currentMonthEnd == endOfMonth(now)
  IN IF isEqual(start, currentWeekStart) /\ isEqual(end, currentWeekEnd)
     THEN Returned(Label("This Week", EmptyString, EmptyString))
     ELSE IF isEqual(start, currentMonthStart) /\ isEqual(end, currentMonthEnd)
     THEN Returned(Label("This Month", EmptyString, EmptyString))
     ELSE IF isSameYear(start, end)
     THEN IF isSameMonth(start, end)
          THEN Compact("MMM d - d, yyyy", start, end)
          ELSE Compact("MMM d - MMM d, yyyy", start, end)
     ELSE Compact("MMM d, yyyy - MMM d, yyyy", start, end)

InitLabel ==
  /\ calc \in [phase : {"args"}, startDate : DateStrings,
               endDate : DateStrings \cup {NewYear2025}, now : TimesOfDay]
  /\ form = [phase |-> "idle"]
  /\ IdlePages

\* formatPeriodDescription(startDate, endDate) at the time now
FormatPeriodDescription ==
  /\ calc.phase = "args"
  /\ calc' = [phase |-> "label", startDate |-> calc.startDate,
              endDate |-> calc.endDate, now |-> calc.now,
              result |-> formatPeriodDescription(calc.startDate, calc.endDate,
                                                 Date(Today, calc.now))]
  /\ UNCHANGED <<guard, icpt, ext, perm, client, form>>

NextLabel == FormatPeriodDescription

SpecLabel == InitLabel /\ [][NextLabel]_vars

\* C16: the range of the current week is labelled "This Week", the range of
\* the current month "This Month", and every other range of two dates gets
\* the compact label of its case: same month, same year, or two years.
C16_PeriodDescription ==
  calc.phase = "label" /\ calc.startDate # EmptyString /\ calc.endDate # EmptyString =>
    LET now == Date(Today, calc.now)
        range == [startDate |-> calc.startDate, endDate |-> calc.endDate]
        sameYear == (calc.startDate <= DaysIn2024) = (calc.endDate <= DaysIn2024)
        sameMonth == sameYear /\ MonthOfDay(calc.startDate) = MonthOfDay(calc.endDate)
    IN /\ ~calc.result.threw
       /\ calc.result.value.text =
            IF range = getDateRangeForPeriod("week", now) THEN "This Week"
            ELSE IF range = getDateRangeForPeriod("month", now) THEN "This Month"
            ELSE IF sameMonth THEN "MMM d - d, yyyy"
            ELSE IF sameYear THEN "MMM d - MMM d, yyyy"
            ELSE "MMM d, yyyy - MMM d, yyyy"

(***************************************************************************)
(* Statistics of the employee detail page and of the team page             *)
(***************************************************************************)
\* the longest list of worklogs a page is given
MaxWorklogs == 2

WorkDates == {2, 3}
HoursValues == {0, 4, 8}
TypeNames == {"Development", "Meeting"}
StatsEmployeeIds == {1, 2}

\* the periods the pages are shown for, and the date-fns release of the
\* build: a working week, a weekend, and an end date before the start date
StatsPeriods ==
  {[startDate |-> 1, endDate |-> 7, lib |-> "throwing"],
   [startDate |-> 6, endDate |-> 7, lib |-> "reversing"],
   [startDate |-> 3, endDate |-> 2, lib |-> "throwing"],
   [startDate |-> 3, endDate |-> 2, lib |-> "reversing"]}

Worklogs(ids, hours, types) ==
  [employeeId : ids, workDate : WorkDates, hoursWorked : hours,
   worklogTypeName : types]

WorklogLists(W) == UNION {[1 .. n -> W] : n \in 0 .. MaxWorklogs}

\* a / b of two numbers: 0 / 0 is NaN, written Rat(0, 0)
JsDivide(a, b) == Rat(a, b)
NaN == Rat(0, 0)

\* worklogs.reduce((sum, w) => sum + w.hoursWorked, 0)
RECURSIVE totalHours(_)
totalHours(worklogs) ==
  IF worklogs = << >> THEN 0
  ELSE totalHours(SubSeq(worklogs, 1, Len(worklogs) - 1))
         + worklogs[Len(worklogs)].hoursWorked

\* counts worklogs instead of dates
daysWorkedPerWorklog(worklogs) == Len(worklogs)

\* new Set(worklogs.map((w) => w.workDate)).size
daysWorked(worklogs) ==
  Cardinality({worklogs[i].workDate : i \in DOMAIN worklogs})

averageHours(worklogs) ==
  IF daysWorked(worklogs) > 0
  THEN JsDivide(totalHours(worklogs), daysWorked(worklogs))
  ELSE Rat(0, 1)

\* the reduce that groups the worklogs by worklogTypeName
worklogsByType(worklogs) ==
  [typeName \in {worklogs[i].worklogTypeName : i \in DOMAIN worklogs} |->
     LET Named(w) == w.worklogTypeName = typeName
         ofType == SelectSeq(worklogs, Named)
     IN [hours |-> totalHours(ofType), count |-> Len(ofType)]]

\* (data.hours / totalHours) * 100
percentage(data, total) ==
  LET q == JsDivide(data.hours, total) IN Rat(100 * q.num, q.den)

\* what the employee detail page computes while it renders
EmployeeDetailPage(worklogs, startDate, endDate, lib) ==
  LET workingDaysInPeriod == calculateWorkingDays(startDate, endDate, lib)
      expectedHoursInPeriod == calculateExpectedHours(startDate, endDate, lib)
      byType == worklogsByType(worklogs)
  IN IF workingDaysInPeriod.threw THEN Thrown(workingDaysInPeriod.error)
     ELSE Returned(
       [expectedHoursInPeriod |-> expectedHoursInPeriod.value,
        totalHours |-> totalHours(worklogs),
        daysWorked |-> daysWorked(worklogs),
        averageHours |-> averageHours(worklogs),
        utilizationRate |->
          calculateUtilizationRate(totalHours(worklogs),
                                   expectedHoursInPeriod.value),
        worklogsByType |-> byType,
        percentage |-> [typeName \in DOMAIN byType |->
                          percentage(byType[typeName], totalHours(worklogs))]])

\* the rows of the team page, one per visible employee
teamStats(employees, worklogs, expectedHoursInPeriod) ==
  [i \in DOMAIN employees |->
     LET Own(w) == w.employeeId = employees[i]
         employeeWorklogs == SelectSeq(worklogs, Own)
     IN [id |-> employees[i],
         totalHours |-> totalHours(employeeWorklogs),
         daysWorked |-> daysWorked(employeeWorklogs),
         averageHours |-> averageHours(employeeWorklogs),
         utilizationRate |->
           calculateUtilizationRate(totalHours(employeeWorklogs),
                                    expectedHoursInPeriod)]]

\* teamStats.reduce((sum, stat) => sum + stat.totalHours, 0)
RECURSIVE totalTeamHours(_)
totalTeamHours(stats) ==
  IF stats = << >> THEN 0
  ELSE totalTeamHours(SubSeq(stats, 1, Len(stats) - 1))
         + stats[Len(stats)].totalHours

\* a team rate over the expected hours of one member only
teamUtilizationRatePerMember(stats, expectedHoursInPeriod) ==
  IF Len(stats) > 0
  THEN calculateUtilizationRate(totalTeamHours(stats), expectedHoursInPeriod)
  ELSE Rat(0, 1)

teamUtilizationRate(stats, expectedHoursInPeriod) ==
  IF Len(stats) > 0
  THEN calculateUtilizationRate(totalTeamHours(stats),
                                expectedHoursInPeriod * Len(stats))
  ELSE Rat(0, 1)

\* what the team page computes while it renders
TeamPage(employees, worklogs, startDate, endDate, lib) ==
  LET workingDaysInPeriod == calculateWorkingDays(startDate, endDate, lib)
      expectedHoursInPeriod == calculateExpectedHours(startDate, endDate, lib)
  IN IF workingDaysInPeriod.threw THEN Thrown(workingDaysInPeriod.error)
     ELSE LET stats == teamStats(employees, worklogs, expectedHoursInPeriod.value)
          IN Returned(
            [expectedHoursInPeriod |-> expectedHoursInPeriod.value,
             teamStats |-> stats,
             totalTeamHours |-> totalTeamHours(stats),
             averageTeamHours |->
               IF Len(stats) > 0
               THEN JsDivide(totalTeamHours(stats), Len(stats))
               ELSE Rat(0, 1),
             teamUtilizationRate |->
               teamUtilizationRate(stats, expectedHoursInPeriod.value)])

\* the worklogs the server sends for the employee chosen in the filter ({}:
\* all employees)
TeamWorklogs(all, selectedEmployee) ==
  LET Chosen(w) == w.employeeId \in selectedEmployee IN
  IF selectedEmployee = {} THEN all ELSE SelectSeq(all, Chosen)

\* the lists of visible employees
EmployeeLists == {<< >>, <<1>>, <<1, 2>>}

InitStats ==
  /\ \E p \in StatsPeriods :
       \/ \E ws \in WorklogLists(Worklogs({2}, HoursValues, TypeNames)) :
            calc = [phase |-> "args", page |-> "employee", period |-> p,
                    employees |-> <<2>>, selectedEmployee |-> {},
                    worklogs |-> ws]
       \/ \E ws \in WorklogLists(Worklogs(StatsEmployeeIds, HoursValues \ {0},
                                          {"Development"})),
             es \in EmployeeLists :
          \E sel \in {{}} \cup {{es[i]} : i \in DOMAIN es} :
            calc = [phase |-> "args", page |-> "team", period |-> p,
                    employees |-> es, selectedEmployee |-> sel,
                    worklogs |-> TeamWorklogs(ws, sel)]
  /\ form = [phase |-> "idle"]
  /\ IdlePages

RenderEmployeeDetailPage ==
  /\ calc.phase = "args" /\ calc.page = "employee"
  /\ calc' = [calc EXCEPT !.phase = "rendered"]
              @@ [result |-> EmployeeDetailPage(calc.worklogs, calc.period.startDate,
                                                calc.period.endDate, calc.period.lib)]
  /\ UNCHANGED <<guard, icpt, ext, perm, client, form>>

RenderTeamPage ==
  /\ calc.phase = "args" /\ calc.page = "team"
  /\ calc' = [calc EXCEPT !.phase = "rendered"]
              @@ [result |-> TeamPage(calc.employees, calc.worklogs,
                                      calc.period.startDate, calc.period.endDate,
                                      calc.period.lib)]
  /\ UNCHANGED <<guard, icpt, ext, perm, client, form>>

NextStats == RenderEmployeeDetailPage \/ RenderTeamPage

SpecStats == InitStats /\ [][NextStats]_vars

\* the sum of f over a set of indices
RECURSIVE SumOver(_, _)
SumOver(S, f) ==
  IF S = {} THEN 0
  ELSE LET i == CHOOSE j \in S : TRUE IN f[i] + SumOver(S \ {i}, f)

Rendered(p) == calc.phase = "rendered" /\ calc.page = p /\ ~calc.result.threw

\* the four figures of one employee, for worklogs ws and expected hours e
Aggregation(s, ws, e) ==
  LET dates == {ws[i].workDate : i \in DOMAIN ws} IN
  /\ s.totalHours = SumOver(DOMAIN ws, [i \in DOMAIN ws |-> ws[i].hoursWorked])
  /\ s.daysWorked = Cardinality(dates)
  /\ IF dates = {} THEN s.averageHours = Rat(0, 1)
     ELSE /\ s.averageHours.den > 0
          /\ s.averageHours.num * s.daysWorked = s.totalHours * s.averageHours.den
  /\ s.utilizationRate = calculateUtilizationRate(s.totalHours, e)

\* C17: on the employee detail page and in every row of the team page,
\* totalHours is the sum of hoursWorked, daysWorked the number of distinct
\* work dates, averageHours their quotient (0 without worklogs) and
\* utilizationRate the rate of totalHours against the period's expected hours.
C17_EmployeeAggregation ==
  /\ Rendered("employee") =>
       Aggregation(calc.result.value, calc.worklogs,
                   calc.result.value.expectedHoursInPeriod)
  /\ Rendered("team") =>
       \A i \in DOMAIN calc.employees :
         LET Own(w) == w.employeeId = calc.employees[i] IN
         /\ calc.result.value.teamStats[i].id = calc.employees[i]
         /\ Aggregation(calc.result.value.teamStats[i],
                        SelectSeq(calc.worklogs, Own),
                        calc.result.value.expectedHoursInPeriod)

\* 8 hours on 2024-01-02 and 4 hours on 2024-01-03 in the week 01..07
C17_Witness ==
  /\ Rendered("employee")
  /\ calc.period.startDate = 1 /\ calc.period.endDate = 7
  /\ Len(calc.worklogs) = 2
  /\ calc.worklogs[1].workDate = 2 /\ calc.worklogs[1].hoursWorked = 8
  /\ calc.worklogs[2].workDate = 3 /\ calc.worklogs[2].hoursWorked = 4
  /\ calc.result.value.expectedHoursInPeriod = 40
  /\ calc.result.value.totalHours = 12
  /\ calc.result.value.daysWorked = 2
  /\ RatEq(calc.result.value.averageHours, Rat(6, 1))
  /\ RatEq(calc.result.value.utilizationRate, Rat(30, 1))

\* C18: on the team page totalTeamHours is the sum of the rows' totalHours,
\* the average per member is that sum divided by the number of visible
\* employees (0 when there are none), and the team rate is the rate of the sum
\* against the expected hours of the period times the number of visible
\* employees, whichever employee is chosen in the filter.
C18_TeamRollUp ==
  Rendered("team") =>
    LET v == calc.result.value
        memberCount == Len(calc.employees)
    IN /\ Len(v.teamStats) = memberCount
       /\ v.totalTeamHours =
            SumOver(1 .. memberCount,
                    [i \in 1 .. memberCount |-> v.teamStats[i].totalHours])
       /\ IF memberCount = 0 THEN v.averageTeamHours = Rat(0, 1)
          ELSE /\ v.averageTeamHours.den > 0
               /\ v.averageTeamHours.num * memberCount
                    = v.totalTeamHours * v.averageTeamHours.den
       /\ v.teamUtilizationRate =
            calculateUtilizationRate(v.totalTeamHours,
                                     v.expectedHoursInPeriod * memberCount)

\* two visible employees, the filter on the first: 8 + 4 hours of 80 expected
C18_Witness ==
  /\ Rendered("team")
  /\ calc.employees = <<1, 2>> /\ calc.selectedEmployee = {1}
  /\ calc.period.startDate = 1 /\ calc.period.endDate = 7
  /\ calc.result.value.teamStats[1].totalHours = 12
  /\ calc.result.value.teamStats[2].totalHours = 0
  /\ calc.result.value.totalTeamHours = 12
  /\ RatEq(calc.result.value.averageTeamHours, Rat(6, 1))
  /\ RatEq(calc.result.value.teamUtilizationRate, Rat(15, 1))

\* C19: each work type's percentage is 100 * hours of the type / totalHours;
\* the percentages add up to 100 when totalHours > 0, and all of them are 0,
\* not the result of a division by zero, when totalHours is 0.
C19_TypeBreakdown ==
  Rendered("employee") =>
    LET v == calc.result.value
        types == DOMAIN v.worklogsByType
    IN /\ \A t \in types :
            IF v.totalHours = 0 THEN v.percentage[t] = Rat(0, 1)
            ELSE /\ v.percentage[t].den > 0
                 /\ v.percentage[t].num * v.totalHours
                      = 100 * v.worklogsByType[t].hours * v.percentage[t].den
       /\ v.totalHours > 0 =>
            SumOver(types, [t \in types |-> 100 * v.worklogsByType[t].hours])
              = 100 * v.totalHours

(***************************************************************************)
(* The worklog form (WorklogForm)                                          *)
(***************************************************************************)
\* the longest description typed
MaxDescriptionLen == 11

\* the two versions of the form
FormVersions == {"WorklogForm.tsx", "later"}

\* the upper bound of the hours in the schema of a version
HoursBound(version) == IF version = "WorklogForm.tsx" THEN 24 ELSE 8

\* z.string().min(10, ...)
MinDescriptionLen == 10

\* texts the hours field can hold
HoursTexts ==
  {"", " ", "abc", "0", "0.5", "1", "8", "8.5", "24", "24.5", "-1", "0x10",
   "1e1", "Infinity"}

Infinity == Rat(1, 0)

\* Number(val) of the texts of the form
Number(val) ==
  CASE val = "" -> Rat(0, 1)
    [] val = " " -> Rat(0, 1)
    [] val = "abc" -> NaN
    [] val = "0" -> Rat(0, 1)
    [] val = "0.5" -> Rat(1, 2)
    [] val = "1" -> Rat(1, 1)
    [] val = "8" -> Rat(8, 1)
    [] val = "8.5" -> Rat(17, 2)
    [] val = "24" -> Rat(24, 1)
    [] val = "24.5" -> Rat(49, 2)
    [] val = "-1" -> Rat(0 - 1, 1)
    [] val = "0x10" -> Rat(16, 1)
    [] val = "1e1" -> Rat(10, 1)
    [] val = "Infinity" -> Infinity

isNaN(x) == x = NaN

\* x > n and x <= n for a number x and an integer n; false for NaN
JsGreater(x, n) == ~isNaN(x) /\ x.num > n * x.den
JsLessEq(x, n) == ~isNaN(x) /\ x.num <= n * x.den

\* a refinement that forgets the upper bound
hoursWorkedRefineUnbounded(val, bound) ==
  ~isNaN(Number(val)) /\ JsGreater(Number(val), 0)

\* the refine of hoursWorked
hoursWorkedRefine(val, bound) ==
  ~isNaN(Number(val)) /\ JsGreater(Number(val), 0) /\ JsLessEq(Number(val), bound)

\* worklogSchema: the fields of data that fail
worklogSchema(data, version) ==
  {f \in {"worklogTypeId"} : Len(data.worklogTypeId) < 1}
  \cup {f \in {"workDate"} : data.workDate = EmptyString}
  \cup {f \in {"hoursWorked"} :
          \/ Len(data.hoursWorked) < 1
          \/ ~hoursWorkedRefine(data.hoursWorked, HoursBound(version))}
  \cup {f \in {"description"} : Len(data.description) < MinDescriptionLen}

Descriptions == {[i \in 1 .. n |-> "a"] : n \in 0 .. MaxDescriptionLen}

\* the worklogs the form is opened for in edit mode
EditedWorklogs ==
  {[id |-> 1, worklogTypeId |-> "1", workDate |-> Today, hoursWorked |-> h,
    description |-> [i \in 1 .. MinDescriptionLen |-> "a"]] : h \in {"8", "24"}}

\* defaultValues of useForm
defaultValues(worklog) ==
  IF worklog = {}
  THEN [worklogTypeId |-> "", workDate |-> format(NewDate), hoursWorked |-> "",
        description |-> << >>]
  ELSE LET w == CHOOSE x \in worklog : TRUE
       IN [worklogTypeId |-> w.worklogTypeId, workDate |-> w.workDate,
           hoursWorked |-> w.hoursWorked, description |-> w.description]

InitForm ==
  /\ \E version \in FormVersions, worklog \in {{}} \cup {{w} : w \in EditedWorklogs} :
       form = [phase |-> "editing", version |-> version, worklog |-> worklog,
               data |-> defaultValues(worklog), errors |-> {}, request |-> {},
               last |-> "mount", isLoading |-> FALSE, apiError |-> {}, pushed |-> {}]
  /\ calc = [phase |-> "idle"]
  /\ IdlePages

FormFields == {"worklogTypeId", "workDate", "hoursWorked", "description"}

FieldValues(field) ==
  CASE field = "worklogTypeId" -> {"", "1"}
    [] field = "workDate" -> {EmptyString, Today}
    [] field = "hoursWorked" -> HoursTexts
    [] field = "description" -> Descriptions

\* the user changes one field
ChangeField ==
  /\ form.phase = "editing"
  /\ \E field \in FormFields :
       \E value \in FieldValues(field) :
         /\ value # form.data[field]
         /\ form' = [form EXCEPT !.data[field] = value, !.request = {},
                                 !.last = "change"]
  /\ UNCHANGED <<guard, icpt, ext, perm, client, calc>>

\* const payload: WorklogCreateRequest = ...
Payload(data) ==
  [worklogTypeId |-> Number(data.worklogTypeId), workDate |-> data.workDate,
   hoursWorked |-> Number(data.hoursWorked), description |-> data.description]

\* handleSubmit(onSubmit): the resolver validates, onSubmit sends
HandleSubmit ==
  /\ form.phase = "editing" /\ ~form.isLoading
  /\ LET errors == worklogSchema(form.data, form.version) IN
     IF errors # {}
     THEN form' = [form EXCEPT !.errors = errors, !.request = {},
                               !.last = "rejected"]
     ELSE form' = [form EXCEPT
                     !.errors = {}, !.isLoading = TRUE, !.phase = "saving",
                     !.last = "sent", !.apiError = {},
                     !.request =
                       {[kind |-> IF form.worklog = {} THEN "createWorklog"
                                  ELSE "updateWorklog",
                         id |-> {w.id : w \in form.worklog},
                         payload |-> Payload(form.data)]}]
  /\ UNCHANGED <<guard, icpt, ext, perm, client, calc>>

\* the request succeeds: router.push("/worklogs")
SaveSucceeds ==
  /\ form.phase = "saving"
  /\ form' = [form EXCEPT !.phase = "left", !.isLoading = FALSE, !.last = "saved",
                          !.pushed = {<<"/", "worklogs">>}]
  /\ UNCHANGED <<guard, icpt, ext, perm, client, calc>>

\* what the catch block of onSubmit stores: the later form keeps
\* extractErrorMessage(error) in apiError, the first one has no such state
\* and only shows a toast
CaughtError(version) == IF version = "later" THEN {"errorMessage"} ELSE {}

\* a catch block that leaves the form for the list as the try block does
SaveFailsAndLeaves ==
  /\ form.phase = "saving"
  /\ form' = [form EXCEPT !.phase = "left", !.isLoading = FALSE, !.last = "failed",
                          !.apiError = CaughtError(form.version),
                          !.pushed = {<<"/", "worklogs">>}]
  /\ UNCHANGED <<guard, icpt, ext, perm, client, calc>>

\* the request fails: the catch and finally blocks run, and the form stays
SaveFails ==
  /\ form.phase = "saving"
  /\ form' = [form EXCEPT !.phase = "editing", !.isLoading = FALSE,
                          !.last = "failed",
                          !.apiError = CaughtError(form.version)]
  /\ UNCHANGED <<guard, icpt, ext, perm, client, calc>>

NextForm == ChangeField \/ HandleSubmit \/ SaveSucceeds \/ SaveFails

SpecForm == InitForm /\ [][NextForm]_vars

\* the hours text is a number h with 0 < h <= bound, and the description has
\* at least ten characters
WithinFormBounds(data, bound) ==
  LET h == Number(data.hoursWorked) IN
  /\ data.hoursWorked # ""
  /\ h.den > 0 /\ h.num > 0 /\ h.num <= bound * h.den
  /\ Len(data.description) >= 10

\* C20: every create or update request of the form carries a number of hours
\* above 0 and not above the bound of the form's version (24, later 8) and a
\* description of ten characters or more; a submit of other input sends no
\* request.
C20_FormInvariant ==
  LET bound == IF form.version = "WorklogForm.tsx" THEN 24 ELSE 8 IN
  form.phase # "idle" =>
    /\ \A r \in form.request :
         /\ r.kind \in {"createWorklog", "updateWorklog"}
         /\ r.payload.hoursWorked.den > 0
         /\ r.payload.hoursWorked.num > 0
         /\ r.payload.hoursWorked.num <= bound * r.payload.hoursWorked.den
         /\ Len(r.payload.description) >= 10
    /\ form.last \in {"rejected", "sent"} /\ ~WithinFormBounds(form.data, bound)
         => form.request = {} /\ form.last = "rejected"

\* 8.5 hours are sent by the first version of the form and refused by the
\* later one
C20_Witness ==
  /\ form.phase # "idle"
  /\ form.data.hoursWorked = "8.5"
  /\ \/ /\ form.version = "WorklogForm.tsx" /\ form.last = "sent"
        /\ \E r \in form.request : r.payload.hoursWorked = Rat(17, 2)
     \/ /\ form.version = "later" /\ form.last = "rejected"
        /\ form.errors = {"hoursWorked"} /\ form.request = {}

(***************************************************************************)
(* Claims about the requests of the views                                  *)
(***************************************************************************)
\* the requests that load what a page displays for its period
LoadKinds(name) ==
  CASE name = "dashboard" -> {"dashboard.load"}
    [] name = "team" -> {"team.worklogs"}
    [] name = "employee" -> {"emp.worklogs", "emp.dashboard"}
    [] name = "worklogs" -> {"worklogs.load"}
    [] OTHER -> {}

\* the load requests in flight that the page shown still awaits
LiveLoads == {r \in DOMAIN inflight : r.live /\ r.kind \in LoadKinds(page.name)}

\* how many of them
LiveLoadCount == SumCounts(LiveLoads, inflight)

\* the request whose response the last step has handled, if its component is
\* still mounted
Arrived(kind) == {r \in last.done : r.live /\ r.kind = kind /\ last.event = "ok"}

NextRedirect ==
  \/ session.cookie # "expired" /\ NextClient
  \/ session.cookie = "expired" /\ (RespondOk \/ RespondFail)

SpecRedirect ==
  InitClient /\ [][NextRedirect]_vars /\ WF_vars(RespondOk \/ RespondFail)

\* C22: once the backend rejects the session cookie, the guard and the 401
\* interceptor bring the browser to rest (unless a login renews the session
\* first): nothing is redirected or fetched any more, and a browser that was
\* sent to /login by a 401 is on /login.
C22_NoRedirectLoop ==
  session.cookie = "expired" ~>
    \/ session.cookie # "expired"
    \/ /\ inflight = EmptyBag
       /\ last.nav = Hard(Target("login", 0)) => page.name = "login"

\* the requests of these kinds that the last step issued
Issued(kinds) == {i \in last.issued : i.kind \in kinds}

\* the last step handled the successful response of a request of this kind,
\* awaited by a mounted component or not
Succeeded(kind) == last.event = "ok" /\ \E r \in last.done : r.kind = kind

\* C23: the employee is requested only by the step in which the current-user
\* request has succeeded; worklogs and dashboard of the employee are requested
\* only when user and employee are both stored; the team page requests
\* worklogs only when its user is stored.
C23_FetchSequencing ==
  /\ Issued({"emp.employee"}) # {} => Succeeded("emp.me")
  /\ Issued({"emp.worklogs", "emp.dashboard"}) # {} =>
       \/ Arrived("emp.employee") # {}
       \/ /\ page.name = "employee"
          /\ view.currentUser # {} /\ view.employee # {}
  /\ page.name = "employee" /\ Arrived("emp.employee") # {} =>
       view.currentUser # {} /\ view.employee # {}
  /\ Issued({"team.worklogs"}) # {} => page.name = "team" /\ view.user # {}

\* the employee has just arrived on the page that holds the user, and the
\* effect has requested the employee's worklogs and dashboard
C23_Witness ==
  /\ page.name = "employee"
  /\ Arrived("emp.employee") # {}
  /\ view.currentUser # {} /\ view.employee # {}
  /\ {i.kind : i \in last.issued} = {"emp.worklogs", "emp.dashboard"}

\* C25: the employee page requests worklogs or the dashboard of the employee
\* only for a user who may view the employee: the step whose permission check
\* fails issues no such request.
C25_PermissionBeforeData ==
  \A g \in last.gate :
    ~canViewEmployeeData(session.me, g.employee) =>
      Issued({"emp.worklogs", "emp.dashboard"}) = {}

\* C27: a login that succeeds navigates to the path of the 'from' parameter
\* the guard has put into the login URL, and to /dashboard without one; a
\* login that fails navigates nowhere and leaves the form submittable.
C27_LoginReturnPath ==
  \A r \in last.done :
    r.kind = "login.submit" =>
      IF last.event = "ok"
      THEN /\ \E n \in last.nav :
                /\ ~n.hard
                /\ PathOf(n.target) \in (IF r.from = {} THEN {DashboardPath} ELSE r.from)
                /\ \/ SameRoute(page, n.target)
                   \/ n.target.name = "root" /\ page.name = "dashboard"
           /\ r.from \subseteq {PathOf(t) : t \in AddressBarTargets \ {Target("login", 0)}}
      ELSE /\ last.nav = {}
           /\ r.live => page.name = "login" /\ ~view.isLoading

\* /employees/2 was asked for without a session; after the login the browser
\* is on /employees/2
C27_Witness ==
  /\ last.event = "ok"
  /\ \E r \in last.done :
       r.kind = "login.submit" /\ r.from = {PathOf(Target("employee", 2))}
  /\ page.name = "employee" /\ page.id = 2

(***************************************************************************)
(* The period of the dashboard, team and employee detail views: the state  *)
(* (startDate, endDate, periodFilter), the URL of the employee page and    *)
(* the requests of the pages, without the navbar and the route guard.      *)
(***************************************************************************)
\* most requests in flight at once in the period views
MaxViewInflight == 3

\* the two dashboard pages of the source
DashboardVersions == {"page.tsx", "part_003"}

\* a non-empty string that no calendar date is written as
NotADate == -1

\* what is typed into the start date input: it is cleared; and into the end
\* date input: 2024-01-10
TypedStartDates == {EmptyString}
TypedEndDates == {10}

\* last week's Monday and Sunday
LastMonday == 8
LastSunday == 14

\* startOfWeek / endOfWeek without options: the week starts on Sunday
startOfWeekSunday(date) == Date(date.day - (date.day % 7), 0)
endOfWeekSunday(date) == Date(startOfWeekSunday(date).day + 6, EndOfDayMs)

isValidDateString(dateStr) ==
  IF dateStr = EmptyString THEN FALSE ELSE parseISO(dateStr).valid

\* a date string inside a URL, as a sequence of tokens; the empty string
\* adds nothing
DateText(d) ==
  IF d = EmptyString THEN << >>
  ELSE IF d = NotADate THEN <<"x">>
  ELSE <<ToString(d)>>

\* the date string a sequence of tokens spells
TextDate(s) ==
  IF s = << >> THEN EmptyString
  ELSE IF Len(s) = 1 /\ \E d \in CalendarDays : ToString(d) = s[1]
  THEN CHOOSE d \in CalendarDays : ToString(d) = s[1]
  ELSE NotADate

PeriodText(p) == IF p = "" THEN << >> ELSE <<p>>

\* new URLSearchParams({startDate, endDate, period}).toString()
paramsToString(startDate, endDate, period) ==
  <<"startDate", "=">> \o DateText(startDate) \o <<"&", "endDate", "=">>
    \o DateText(endDate) \o <<"&", "period", "=">> \o PeriodText(period)

\* the query string of the link of a team-page row
TeamLinkSearch(startDate, endDate, period) ==
  <<"?">> \o paramsToString(startDate, endDate, period)

\* the search part of the URL the URL-sync effect passes to router.replace:
\* `/employees/${employeeId}?${qs}` with qs beginning with "?"
SyncSearch(startDate, endDate, period) ==
  LET qs == <<"?">> \o paramsToString(startDate, endDate, period)
  IN <<"?">> \o qs

\* s.split(sep)
RECURSIVE Split(_, _)
Split(s, sep) ==
  IF \E i \in 1..Len(s) : s[i] = sep
  THEN LET i == CHOOSE j \in 1..Len(s) :
                  s[j] = sep /\ \A k \in 1..(j-1) : s[k] # sep
       IN <<SubSeq(s, 1, i - 1)>> \o Split(SubSeq(s, i + 1, Len(s)), sep)
  ELSE <<s>>

\* new URLSearchParams(search): one leading "?" is dropped, the rest is split
\* at "&", every piece at its first "="
URLSearchParams(search) ==
  LET s == IF search # << >> /\ search[1] = "?" THEN Tail(search) ELSE search
      pieces == Split(s, "&")
      pair(p) == LET kv == Split(p, "=")
                 IN [key |-> kv[1],
                     value |-> IF Len(p) > Len(kv[1])
                               THEN SubSeq(p, Len(kv[1]) + 2, Len(p)) ELSE << >>]
  IN [i \in 1..Len(pieces) |-> pair(pieces[i])]

\* useSearchParams().get(key): the value of the first such key, or null (the
\* empty set here)
useSearchParamsGet(search, key) ==
  LET params == URLSearchParams(search)
  IN IF \E i \in 1..Len(params) : params[i].key = <<key>>
     THEN {params[CHOOSE j \in 1..Len(params) :
                    /\ params[j].key = <<key>>
                    /\ \A k \in 1..(j-1) : params[k].key # <<key>>].value}
     ELSE {}

\* the first half of getInitialDates: the period the URL carries when both
\* dates are there and valid
UrlQuery(search) ==
  LET urlStartDate == useSearchParamsGet(search, "startDate")
      urlEndDate == useSearchParamsGet(search, "endDate")
      urlPeriod == useSearchParamsGet(search, "period")
      present(x) == x # {} /\ x # {<< >>}
      text(x) == CHOOSE s \in x : TRUE
  IN IF /\ present(urlStartDate)
        /\ present(urlEndDate)
        /\ isValidDateString(TextDate(text(urlStartDate)))
        /\ isValidDateString(TextDate(text(urlEndDate)))
     THEN {[startDate |-> TextDate(text(urlStartDate)),
            endDate |-> TextDate(text(urlEndDate)),
            periodFilter |-> IF present(urlPeriod) THEN text(urlPeriod)[1]
                             ELSE "custom"]}
     ELSE {}

\* a page of the views under its URL, with the code that wrote the URL
ViewPage(name, id, search, by) ==
  [name |-> name, id |-> id, from |-> {}, search |-> search, by |-> by,
   q |-> IF name = "employee" THEN UrlQuery(search) ELSE {}]

ErrorPage == ViewPage("error", 0, << >>, "user")

\* the URLs of the employee page a user opens from the address bar
\* (none, a link kept from last week, a reversed interval without a period,
\* text that is no date)
AddressBarSearches ==
  {<< >>,
   TeamLinkSearch(LastMonday, LastSunday, "week"),
   TeamLinkSearch(LastSunday, LastMonday, ""),
   TeamLinkSearch(NotADate, LastSunday, "custom")}

\* the state a page component starts with; the dashboard of part_003 starts
\* with startOfWeek(new Date()) and endOfWeek(new Date())
MountViewOf(t) ==
  IF t.name = "dashboard" /\ session.dashboard = "part_003"
  THEN [MountView(t) EXCEPT !.startDate = format(startOfWeekSunday(NewDate)),
                            !.endDate = format(endOfWeekSunday(NewDate))]
  ELSE MountView(t)

\* the component body calls calculateWorkingDays(startDate, endDate), which
\* throws: the page is replaced by the error page
RenderThrows(t, v) ==
  /\ \/ t.name \in {"team", "employee"}
     \/ t.name = "dashboard" /\ session.dashboard = "page.tsx"
  /\ calculateWorkingDays(v.startDate, v.endDate, session.lib).threw

\* the URL-sync effect of the employee page
SyncUrl(t, v) ==
  LET qs == <<"?">> \o paramsToString(v.startDate, v.endDate, v.periodFilter)
  IN IF t.search # qs
     THEN [t EXCEPT !.search = SyncSearch(v.startDate, v.endDate, v.periodFilter),
                    !.by = "sync"]
     ELSE t

\* what the last step was, as Ev; for a reload and a link also the period the
\* view had before it and the code that had written the URL reloaded
ViewEv(event) ==
  [event |-> event, failed |-> "none", issued |-> {}, gate |-> {}, done |-> {},
   nav |-> {},
   before |-> IF event \in {"reload", "link"}
              THEN {[startDate |-> view.startDate, endDate |-> view.endDate,
                     periodFilter |-> view.periodFilter, by |-> page.by]}
              ELSE {}]

\* a request without the period it asks for: of a response only its arrival
\* counts here, not the data it carries
Bare(r) == IF r.kind \in ClosureKinds THEN r ELSE [r EXCEPT !.args = << >>]

\* A handler has run: the view state it leaves, the requests in flight before
\* it, the requests its effects issue, and the page it navigates to (none, or
\* one; hard for a page load).  The page renders, or throws while rendering;
\* the effects of a rendered page run: the URL sync and the requests.
Show(ev, v1, bag1, reqs, by, nav, hard) ==
  LET moved == nav # {}
      t == IF moved THEN CHOOSE x \in nav : TRUE ELSE page
      v2 == IF moved THEN MountViewOf(t) ELSE v1
      crashed == RenderThrows(t, v2)
      issuedBag == SetToBag({Bare(q) : q \in reqs})
      kept == IF hard THEN EmptyBag
              ELSE IF moved \/ crashed
              THEN RetireAll(bag1 (+) issuedBag, FALSE)
              ELSE bag1 (+) issuedBag
      mountReqs == IF moved /\ ~crashed
                   THEN {Bare(q) : q \in MountRequests(t, v2)} ELSE {}
  IN /\ page' = IF crashed THEN ErrorPage
                ELSE IF t.name = "employee" THEN SyncUrl(t, v2) ELSE t
     /\ view' = IF crashed THEN MountView(ErrorPage) ELSE v2
     /\ inflight' = kept (+) SetToBag(mountReqs)
     /\ last' = [ev EXCEPT !.issued = Tagged(reqs, by) \cup Tagged(mountReqs, "mount")]
     /\ BagCardinality(inflight') <= MaxViewInflight
     /\ UNCHANGED <<session, navbar>>

\* the browser shows one of the views, opened from the address bar by a
\* logged-in user
InitViews ==
  /\ session \in [cookie : {"valid"}, me : ViewUsers, lib : Libs,
                  dashboard : DashboardVersions]
  /\ navbar = NoNavbar
  /\ page = BlankPage
  /\ view = MountView(BlankPage)
  /\ inflight = EmptyBag
  /\ last = Ev("init")
  /\ guard = IdleGuard
  /\ icpt = IdleIcpt
  /\ ext = IdleExt
  /\ perm = IdlePerm
  /\ IdlePure

\* the user opens a view from the address bar
ViewOpenUrl ==
  /\ \E t \in {ViewPage("dashboard", 0, << >>, "user"),
              ViewPage("team", 0, << >>, "user")}
              \cup {ViewPage("employee", i, s, "user") :
                      i \in ViewEmployeeIds, s \in AddressBarSearches} :
       Show(ViewEv("open"), view, inflight, {}, "none", {t}, TRUE)
  /\ UNCHANGED others

\* the user reloads the page: the URL in the address bar is loaded afresh
ViewReload ==
  /\ page.name \in {"dashboard", "team", "employee"}
  /\ Show(ViewEv("reload"), view, inflight, {}, "none",
          {ViewPage(page.name, page.id, page.search, page.by)}, TRUE)
  /\ UNCHANGED others

\* what the period buttons and the date inputs can set
ViewPeriodChoices ==
  {[startDate |-> getDateRangeForPeriod(p, NewDate).startDate,
    endDate |-> getDateRangeForPeriod(p, NewDate).endDate,
    periodFilter |-> p] : p \in {"week", "month"}}
  \cup {[startDate |-> d, endDate |-> view.endDate, periodFilter |-> "custom"] :
          d \in TypedStartDates}
  \cup {[startDate |-> view.startDate, endDate |-> d, periodFilter |-> "custom"] :
          d \in TypedEndDates}

\* handlePeriodChange and the onChange of a date input; the effect on
\* [startDate, endDate] runs when one of them has a new value
ViewChangeDates ==
  /\ PeriodControlsShown
  /\ \E c \in ViewPeriodChoices :
       LET changed == <<c.startDate, c.endDate>> # <<view.startDate, view.endDate>>
           v1 == [view EXCEPT !.startDate = c.startDate, !.endDate = c.endDate,
                              !.periodFilter = c.periodFilter]
           ev == [ViewEv("change") EXCEPT
                    !.done = {[kind |-> IF c.periodFilter = "custom" THEN "input"
                                        ELSE "button"]}]
       IN CASE page.name = "dashboard" ->
                 IF changed
                 THEN Show(ev, [v1 EXCEPT !.isLoading = TRUE, !.stats = "none"],
                           RetireKinds(inflight, StatsKinds),
                           {Req("dashboard.load", <<c.startDate, c.endDate>>)},
                           "effect", {}, FALSE)
                 ELSE Show(ev, v1, inflight, {}, "effect", {}, FALSE)
            [] page.name = "team" ->
                 Show(ev, v1, inflight,
                      IF changed /\ view.user # {}
                      THEN {Req("team.worklogs",
                                <<c.startDate, c.endDate, view.selectedEmployee>>)}
                      ELSE {}, "effect", {}, FALSE)
            [] page.name = "employee" ->
                 Show(ev, v1, inflight,
                      IF changed /\ view.currentUser # {}
                      THEN {Req("emp.worklogs", <<c.startDate, c.endDate>>),
                            Req("emp.dashboard", <<c.startDate, c.endDate>>)}
                      ELSE {}, "effect", {}, FALSE)
  /\ UNCHANGED others

\* the link of an employee row of the team page
ViewOpenEmployee ==
  /\ page.name = "team" /\ ~view.isLoading /\ view.worklogs # {}
  /\ \E i \in view.employees :
       Show(ViewEv("link"), view, inflight, {}, "none",
            {ViewPage("employee", i,
                      TeamLinkSearch(view.startDate, view.endDate, view.periodFilter),
                      "link")},
            FALSE)
  /\ UNCHANGED others

\* handleBackNavigation of the employee page: the period goes into the URL of
\* the team page, which reads no query
ViewEmployeeBack ==
  /\ page.name = "employee" /\ ~view.isLoading /\ view.employee # {}
  /\ Show(ViewEv("back"), view, inflight, {}, "none",
          {ViewPage("team", 0, TeamLinkSearch(view.startDate, view.endDate,
                                              view.periodFilter), "back")}, FALSE)
  /\ UNCHANGED others

\* the navigation a handler asked for, as a page of the views
ViewNav(nav) == {ViewPage(n.target.name, n.target.id, << >>, "push") : n \in nav}

\* a request succeeds and its continuation runs
ViewRespondOk ==
  /\ \E r \in DOMAIN inflight :
       \E e \in (IF r.kind = "emp.employee" THEN EmployeeAnswers(r.args[1])
                 ELSE {NoEmployee}) :
         LET eff == OnOk(r, e) IN
         Show([ViewEv("ok") EXCEPT
                 !.gate =
                   IF r.kind = "emp.employee"
                   THEN {[employee |-> e, toasts |-> eff.toasts, pushed |-> eff.nav]}
                   ELSE {},
                 !.done = {r}, !.nav = eff.nav],
              eff.v, inflight (-) SetToBag({r}), eff.reqs, eff.by,
              ViewNav(eff.nav), FALSE)
  /\ UNCHANGED others

\* a request fails with a status that the interceptor only passes on; the
\* caller's catch and finally blocks run
ViewRespondFail ==
  /\ \E r \in DOMAIN inflight :
       LET eff == OnFail(r) IN
       Show([ViewEv("fail") EXCEPT
               !.failed = r.kind, !.done = {r}, !.nav = eff.nav],
            eff.v, inflight (-) SetToBag({r}), eff.reqs, eff.by,
            ViewNav(eff.nav), FALSE)
  /\ UNCHANGED others

NextViews ==
  \/ ViewOpenUrl
  \/ ViewReload
  \/ ViewChangeDates
  \/ ViewOpenEmployee
  \/ ViewEmployeeBack
  \/ ViewRespondOk
  \/ ViewRespondFail

SpecViews == InitViews /\ [][NextViews]_vars

(***************************************************************************)
(* Claims about the period of the views                                    *)
(***************************************************************************)
PeriodViews == {"dashboard", "team", "employee"}

\* the period of the view shown
PeriodShown ==
  [startDate |-> view.startDate, endDate |-> view.endDate,
   periodFilter |-> view.periodFilter]

\* C24: in every state of the dashboard, team and employee views both dates
\* of the period parse as calendar dates and startDate is not after endDate.
C24_PeriodValidity ==
  page.name \in PeriodViews =>
    /\ parseISO(view.startDate).valid
    /\ parseISO(view.endDate).valid
    /\ view.startDate <= view.endDate

\* C29: the employee page reloaded from a URL its URL-sync effect has written
\* starts with the period it had before; opened by a row link of the team
\* page it starts with the period of the team page.
C29_UrlRoundTrip ==
  page.name = "employee" =>
    /\ last.event = "reload" =>
         \A b \in last.before :
           b.by = "sync" =>
             PeriodShown = [startDate |-> b.startDate, endDate |-> b.endDate,
                            periodFilter |-> b.periodFilter]
    /\ last.event = "link" =>
         \A b \in last.before :
           PeriodShown = [startDate |-> b.startDate, endDate |-> b.endDate,
                          periodFilter |-> b.periodFilter]

\* C30: in every state of the three views periodFilter "week" goes with the
\* Monday-to-Sunday week of today and "month" with the first to the last day
\* of today's month; a date typed into an input leaves periodFilter "custom".
C30_PeriodFilterConsistency ==
  page.name \in PeriodViews =>
    /\ view.periodFilter \in {"week", "month"} =>
         LET range == getDateRangeForPeriod(view.periodFilter, NewDate)
         IN view.startDate = range.startDate /\ view.endDate = range.endDate
    /\ (last.event = "change" /\ last.done = {[kind |-> "input"]}) =>
         view.periodFilter = "custom"

(***************************************************************************)
(* The loading flag of the dashboard and the worklogs page                 *)
(***************************************************************************)
\* C26: on the dashboard and on the worklogs page isLoading is true as long as
\* a load request of the page is in flight.
C26_LoadingFlag ==
  page.name \in {"dashboard", "worklogs"} =>
    (LiveLoads # {} => view.isLoading)

(***************************************************************************)
(* Claims about the submission of the worklog form                         *)
(***************************************************************************)
\* what every submit does in both forms: one request, an update of
\* worklog.id in edit mode and a create otherwise; /worklogs is pushed exactly
\* when it has succeeded; isLoading is false again after either outcome and
\* the form stays after a failure
SubmitOutcome ==
  /\ form.last = "sent" =>
       /\ Cardinality(form.request) = 1
       /\ \A r \in form.request :
            IF form.worklog = {}
            THEN r.kind = "createWorklog" /\ r.id = {}
            ELSE r.kind = "updateWorklog" /\ r.id = {w.id : w \in form.worklog}
       /\ form.isLoading
  /\ form.pushed # {} <=> form.last = "saved"
  /\ form.pushed \subseteq {<<"/", "worklogs">>}
  /\ form.last \in {"saved", "failed"} => ~form.isLoading
  /\ form.last = "failed" => form.phase = "editing"

====
